---- MODULE Spec2Model ----
(***************************************************************************)
(* A model of the conch-runtime shell runtime: pipelines of listable       *)
(* commands, environments and sub-environments, while/until loops,         *)
(* subshells, function calls, the redirect/variable restorer and the       *)
(* cancellation of evaluations.                                            *)
(*                                                                         *)
(* Each subsystem has its own specification (SpecPipeline, SpecEnv, ...).  *)
(* The variables of the other subsystems stay at their idle values.        *)
(***************************************************************************)
EXTENDS Integers, Sequences, FiniteSets, TLC

VARIABLES
    \* ---- pipelines (src/src/spawn/listable.rs) ----
    cmds,                \* the commands of the ListableCommand, in order
    invert_last_status,  \* ListableCommandEnvFuture.invert_last_status
    effKind,             \* which part of its environment a running command changes
    pipeline_state,      \* ListableCommandEnvFuture.pipeline_state (+ "Done")
    pipeline,            \* Pipeline.pipeline: the earlier stages still pending
    last,                \* Pipeline.last, or the Either::B future of a single command
    envs,                \* environment 0 is the caller's, i > 0 is stage i's own
    envOf,               \* the environment each spawned command runs in
    ready,               \* stages whose future resolves at its next poll
    result,              \* what the spawned listable command resolved to
    \* ---- environments (src/conch-runtime/src/env) ----
    env,                 \* the live environments: "parent" and, once made, "child"
    functions,           \* the Arc<HashMap> cells behind FnEnv.functions
    lastOp,              \* the last operation performed and the environment it was on
    parentBefore,        \* what the parent looked like before the last operation
    \* ---- while/until loops (src/src/spawn/loop_cmd.rs) ----
    loop_cmd,            \* the Loop: invert_guard_status, guard, body, has_run_body, state
    last_status,         \* the environment's last status
    polling,             \* inside a call of Loop::poll
    loopResult,          \* what Loop::poll resolved to
    lastBody,            \* the status of the last body execution
    decision,            \* the last guard status and whether the body was started on it
    loopCancels,         \* calls of Loop::cancel, and those passed on to the sequence
    loopLog,             \* the last command run, whether a body command ran, errors seen
    \* ---- subshells (src/src/spawn/subshell.rs, conch-runtime/src/spawn/subshell.rs) ----
    subshell,            \* which implementation and build, the commands left, env's last status
    subResult,           \* what the subshell resolved to
    subErr,              \* the error the subshell's commands failed with
    \* ---- parameter substitution (src/src/eval/ast_impl/param_subst.rs) ----
    inner,               \* the Inner state of a ParameterSubstitution
    psResult,            \* what its poll resolved to
    psPanic,             \* the panic that stopped it
    psCancels,           \* calls of cancel, and those passed on to the inner future
    listableResult,      \* what the ListableCommandFuture (InvertStatus) resolved to
    listCancels,         \* calls of ListableCommandEnvFuture::cancel, and those passed on
    \* ---- a Restorer scope over redirects and variable assignments ----
    restorer,            \* the environment's tables, the journals, the items and where we are
    \* ---- function calls ----
    fnEnv,               \* the environment's args and function-frame counter
    calls,               \* the calls in progress, innermost last
    lastExit,            \* how the last call ended and what it left behind
    unwinding,           \* an error or a cancel is on its way out through the calls
    \* ---- command substitution (src/src/runtime/eval/parameter.rs) ----
    cs,                  \* run_cmd_subst: where it is, the pipe, the capturing thread
    \* ---- word evaluation (src/src/runtime/eval/word.rs, parameter.rs) ----
    dq,                  \* Word::DoubleQuoted: the parts, the args, fields and cur_field
    concat,              \* ComplexWord::Concat: the parts, the cfg, fields so far
    split,               \* split_fields: the Fields, IFS, and what splitting returned
    \* ---- parameters, substitutions, arithmetic (parameter.rs, env_impl.rs) ----
    ev,                  \* one evaluation: what is evaluated, in which environment, the outcome
    \* ---- the thread pool reader (src/src/env/async_io/cpu_pool.rs) ----
    rd                   \* the descriptor, the producer, the channel, the reader

pipeVars == <<listableResult, listCancels, cmds, invert_last_status, effKind, pipeline_state, pipeline, last,
              envs, envOf, ready, result>>

envVars == <<env, functions, lastOp, parentBefore>>

loopVars == <<loop_cmd, last_status, polling, loopResult, lastBody, decision,
              loopCancels, loopLog>>

subVars == <<subshell, subResult, subErr>>

psVars == <<inner, psResult, psPanic, psCancels>>

restVars == <<restorer>>

callVars == <<fnEnv, calls, lastExit, unwinding>>

csVars == <<cs>>

wordVars == <<dq, concat, split>>

evalVars == <<ev>>

readVars == <<rd>>

vars == <<pipeVars, envVars, loopVars, subVars, psVars, restVars, callVars,
          csVars, wordVars, evalVars, readVars>>

notPipeVars == <<envVars, loopVars, subVars, psVars, restVars, callVars, csVars,
    wordVars, evalVars, readVars>>
notEnvVars == <<pipeVars, loopVars, subVars, psVars, restVars, callVars, csVars,
    wordVars, evalVars, readVars>>
notLoopVars == <<pipeVars, envVars, subVars, psVars, restVars, callVars, csVars,
    wordVars, evalVars, readVars>>
notSubVars == <<pipeVars, envVars, loopVars, psVars, restVars, callVars, csVars,
    wordVars, evalVars, readVars>>
notPsVars == <<pipeVars, envVars, loopVars, subVars, restVars, callVars, csVars,
    wordVars, evalVars, readVars>>
notRestVars == <<pipeVars, envVars, loopVars, subVars, psVars, callVars, csVars,
    wordVars, evalVars, readVars>>
notCsVars == <<pipeVars, envVars, loopVars, subVars, psVars, restVars, callVars,
    wordVars, evalVars, readVars>>
notWordVars == <<pipeVars, envVars, loopVars, subVars, psVars, restVars, callVars,
    csVars, evalVars, readVars>>
notEvalVars == <<pipeVars, envVars, loopVars, subVars, psVars, restVars, callVars,
    csVars, wordVars, readVars>>
notCallVars == <<pipeVars, envVars, loopVars, subVars, psVars, restVars, csVars,
    wordVars, evalVars, readVars>>
notReadVars == <<pipeVars, envVars, loopVars, subVars, psVars, restVars, callVars,
    csVars, wordVars, evalVars>>

(***************************************************************************)
(* Bounds                                                                  *)
(***************************************************************************)
MaxStages == 3
MaxFrames == 2
MaxCmds == 2
MaxCancels == 2
MaxItems == 4
MaxOut == 2
MaxLeaks == 1
MaxLen == 3
MaxArgs == 3
MaxParts == 3
MaxCode == 255

(***************************************************************************)
(* Exit statuses and results                                               *)
(***************************************************************************)
Code(n) == [t |-> "Code", n |-> n]
Signal(n) == [t |-> "Signal", n |-> n]
EXIT_SUCCESS == Code(0)
EXIT_ERROR == Code(1)

Ok(s) == [ok |-> TRUE, v |-> s]
Err(e) == [ok |-> FALSE, v |-> e]
None == [none |-> TRUE]

(***************************************************************************)
(* Each subsystem at rest: what its variables hold in the specifications   *)
(* of the other subsystems.                                                *)
(***************************************************************************)
IdlePipeline ==
    /\ listCancels = <<0, 0>>
    /\ listableResult = None
    /\ cmds = <<>>
    /\ invert_last_status = FALSE
    /\ effKind = "var"
    /\ pipeline_state = "Idle"
    /\ pipeline = <<>>
    /\ last = None
    /\ envs = <<>>
    /\ envOf = <<>>
    /\ ready = {}
    /\ result = None

IdleEnv ==
    /\ env = <<>>
    /\ functions = <<>>
    /\ lastOp = <<"idle", "none">>
    /\ parentBefore = None

\* Nothing has run yet.
NoLog == [lastRun |-> None, bodyRan |-> FALSE, nonfatal |-> FALSE]

IdleLoop ==
    /\ loop_cmd = None
    /\ last_status = EXIT_SUCCESS
    /\ polling = FALSE
    /\ loopResult = None
    /\ lastBody = None
    /\ loopLog = NoLog
    /\ decision = None
    /\ loopCancels = <<0, 0>>

IdleSubshell ==
    /\ subshell = None
    /\ subResult = None
    /\ subErr = None

IdleParamSubst ==
    /\ inner = "Idle"
    /\ psResult = None
    /\ psPanic = None
    /\ psCancels = <<0, 0>>

IdleRestorer == restorer = None

IdleCmdSubst == cs = None

IdleWord ==
    /\ dq = None
    /\ concat = None
    /\ split = None

IdleEval == ev = None

IdleRead == rd = None

IdleCalls ==
    /\ fnEnv = None
    /\ calls = <<>>
    /\ lastExit = None
    /\ unwinding = "no"

\* What one command can resolve to.
StageOutcomes == {Ok(EXIT_SUCCESS), Ok(EXIT_ERROR), Ok(Code(42)), Err("fatal")}

(***************************************************************************)
(* Environments: Env, FnEnv, FnFrameEnv and sub_env                        *)
(* (src/conch-runtime/src/env/env_impl.rs, func.rs)                        *)
(***************************************************************************)
FnNames == {"f", "g"}
FnBodies == {1, 2}
VarValues == {1}
FdHandles == {1}
Absent == 0

\* FnEnv::new: no function is defined
EmptyFnTable == [n \in FnNames |-> Absent]

\* FnFrameEnv::new
FnFrameEnv_new == 0

\* mutant: pop_fn_frame takes one off without stopping at zero
pop_fn_frame_Unsaturated(num_frames) == num_frames - 1

\* mutant: pop_fn_frame leaves the counter alone
pop_fn_frame_Noop(num_frames) == num_frames

\* FnFrameEnv::push_fn_frame (checked_add(1); the model stays below overflow)
push_fn_frame(num_frames) == num_frames + 1

\* FnFrameEnv::pop_fn_frame (saturating_sub(1))
pop_fn_frame(num_frames) == IF num_frames = 0 THEN 0 ELSE num_frames - 1

\* FnFrameEnv::is_fn_running
is_fn_running(num_frames) == num_frames > 0

\* mutant: the child starts with a fresh counter
FnFrameEnv_sub_env_Fresh(num_frames) == FnFrameEnv_new

\* SubEnvironment for FnFrameEnv: *self
FnFrameEnv_sub_env(num_frames) == num_frames

\* Arc::strong_count of the cell an environment's FnEnv points to
StrongCount(e, cell) == Cardinality({x \in DOMAIN e : e[x].fn_env = cell})

FreshCell(cells) == CHOOSE c \in 1..(Cardinality(DOMAIN cells) + 1) : c \notin DOMAIN cells

\* mutant: the table is written in place even when it is shared
MakeMutCell_InPlace(e, cells, x) == e[x].fn_env

\* Arc::make_mut: the cell environment x may write to, a fresh clone when the
\* cell is shared with another environment.
MakeMutCell(e, cells, x) ==
    IF StrongCount(e, e[x].fn_env) > 1 THEN FreshCell(cells) ELSE e[x].fn_env

\* The cells left once the ones no environment points to are freed.
LiveCells(e, cells) ==
    [c \in {e[x].fn_env : x \in DOMAIN e} |-> cells[c]]

\* FnEnv::function
function(e, cells, x, name) == cells[e[x].fn_env][name]

\* FnEnv::has_function
has_function(e, cells, x, name) == function(e, cells, x, name) # Absent

\* What an environment looks like from outside.
View(e, cells, x) ==
    [functions |-> cells[e[x].fn_env], num_frames |-> e[x].fn_frame_env,
     var |-> e[x].var_env, fd |-> e[x].file_desc_manager_env]

ParentView == View(env, functions, "parent")

\* Env::with_config: FnEnv::new(), FnFrameEnv::new()
InitEnv ==
    /\ env = [x \in {"parent"} |->
                [fn_env |-> 1, fn_frame_env |-> FnFrameEnv_new,
                 var_env |-> Absent, file_desc_manager_env |-> Absent]]
    /\ functions = [c \in {1} |-> EmptyFnTable]
    /\ lastOp = <<"new", "parent">>
    /\ parentBefore = View(env, functions, "parent")
    /\ IdlePipeline
    /\ IdleLoop
    /\ IdleSubshell
    /\ IdleParamSubst
    /\ IdleRestorer
    /\ IdleCalls
    /\ IdleCmdSubst
    /\ IdleWord
    /\ IdleEval
    /\ IdleRead

\* The bookkeeping every environment operation does: which operation ran,
\* and the parent as it was before it (after it, for the parent's own ones).
Record(op, x) ==
    /\ lastOp' = <<op, x>>
    /\ parentBefore' = IF x = "child" THEN ParentView
                       ELSE View(env', functions', "parent")

\* Env::sub_env: every module's sub_env; FnEnv's is an Arc clone.
SubEnv ==
    /\ DOMAIN env = {"parent"}
    /\ env' = [x \in {"parent", "child"} |->
                 IF x = "parent" THEN env["parent"]
                 ELSE [fn_env |-> env["parent"].fn_env,
                       fn_frame_env |-> FnFrameEnv_sub_env(env["parent"].fn_frame_env),
                       var_env |-> env["parent"].var_env,
                       file_desc_manager_env |-> env["parent"].file_desc_manager_env]]
    /\ UNCHANGED functions
    /\ Record("sub_env", "parent")
    /\ UNCHANGED notEnvVars

\* The child environment is dropped.
DropChild ==
    /\ "child" \in DOMAIN env
    /\ env' = [x \in {"parent"} |-> env[x]]
    /\ functions' = LiveCells(env', functions)
    /\ Record("drop", "parent")
    /\ UNCHANGED notEnvVars

\* FnEnv::set_function: Arc::make_mut(&mut self.functions).insert(name, func)
SetFunction(x, name, func) ==
    /\ x \in DOMAIN env
    /\ LET c == MakeMutCell(env, functions, x)
           table == [functions[env[x].fn_env] EXCEPT ![name] = func]
       IN  /\ env' = [env EXCEPT ![x].fn_env = c]
           /\ functions' = LiveCells(env', [k \in DOMAIN functions \cup {c} |->
                                              IF k = c THEN table ELSE functions[k]])
    /\ Record("mutate", x)
    /\ UNCHANGED notEnvVars

\* FnEnv::unset_function: make_mut and remove, only if the name is defined
UnsetFunction(x, name) ==
    /\ x \in DOMAIN env
    /\ IF has_function(env, functions, x, name)
       THEN LET c == MakeMutCell(env, functions, x)
                table == [functions[env[x].fn_env] EXCEPT ![name] = Absent]
            IN  /\ env' = [env EXCEPT ![x].fn_env = c]
                /\ functions' = LiveCells(env', [k \in DOMAIN functions \cup {c} |->
                                              IF k = c THEN table ELSE functions[k]])
       ELSE UNCHANGED <<env, functions>>
    /\ Record("mutate", x)
    /\ UNCHANGED notEnvVars

\* Env::push_fn_frame
PushFnFrame(x) ==
    /\ x \in DOMAIN env
    /\ env[x].fn_frame_env < MaxFrames
    /\ env' = [env EXCEPT ![x].fn_frame_env = push_fn_frame(@)]
    /\ UNCHANGED functions
    /\ Record("push_fn_frame", x)
    /\ UNCHANGED notEnvVars

\* Env::pop_fn_frame
PopFnFrame(x) ==
    /\ x \in DOMAIN env
    /\ env' = [env EXCEPT ![x].fn_frame_env = pop_fn_frame(@)]
    /\ UNCHANGED functions
    /\ Record("pop_fn_frame", x)
    /\ UNCHANGED notEnvVars

\* Env::set_var / unset_var (v = Absent): the variable module's own copy
SetVar(x, v) ==
    /\ x \in DOMAIN env
    /\ env' = [env EXCEPT ![x].var_env = v]
    /\ UNCHANGED functions
    /\ Record("mutate", x)
    /\ UNCHANGED notEnvVars

\* Env::set_file_desc / close_file_desc (h = Absent)
SetFd(x, h) ==
    /\ x \in DOMAIN env
    /\ env' = [env EXCEPT ![x].file_desc_manager_env = h]
    /\ UNCHANGED functions
    /\ Record("mutate", x)
    /\ UNCHANGED notEnvVars

EnvIds == {"parent", "child"}

NextEnv ==
    \/ SubEnv
    \/ DropChild
    \/ \E x \in EnvIds, n \in FnNames, f \in FnBodies : SetFunction(x, n, f)
    \/ \E x \in EnvIds, n \in FnNames : UnsetFunction(x, n)
    \/ \E x \in EnvIds : PushFnFrame(x)
    \/ \E x \in EnvIds : PopFnFrame(x)
    \/ \E x \in EnvIds, v \in VarValues \cup {Absent} : SetVar(x, v)
    \/ \E x \in EnvIds, h \in FdHandles \cup {Absent} : SetFd(x, h)

SpecEnv == InitEnv /\ [][NextEnv]_vars

(***************************************************************************)
(* C3: after sub_env(), nothing the child does (setting or unsetting       *)
(* functions or variables, changing file descriptors) changes the parent's *)
(* functions, variables or file descriptors; the function table is         *)
(* copy-on-write, so a child that sets or unsets a function changes its    *)
(* own copy only.                                                          *)
(***************************************************************************)
C3_ChildMutationLeavesParentUnchanged ==
    (lastOp[2] = "child") => ParentView = parentBefore

\* The child has redefined one of the parent's functions, defined a new one,
\* set a variable and a file descriptor: the parent still has its own.
C3_Witness ==
    /\ lastOp = <<"mutate", "child">>
    /\ function(env, functions, "parent", "f") = 1
    /\ function(env, functions, "child", "f") = 2
    /\ ~has_function(env, functions, "parent", "g")
    /\ has_function(env, functions, "child", "g")
    /\ env["child"].fn_env # env["parent"].fn_env
    /\ env["child"].var_env # env["parent"].var_env
    /\ env["child"].file_desc_manager_env # env["parent"].file_desc_manager_env

(***************************************************************************)
(* C4 (as stated): a child returned by sub_env() starts with a function-   *)
(* frame counter of zero: is_fn_running() is false in it, even when the    *)
(* parent has function frames pushed.                                      *)
(***************************************************************************)
C4_ChildStartsWithNoFrames ==
    (lastOp = <<"sub_env", "parent">>) =>
        (env["child"].fn_frame_env = 0 /\ ~is_fn_running(env["child"].fn_frame_env))

(***************************************************************************)
(* C4 (amended): a child returned by sub_env() starts with a copy of the   *)
(* parent's function-frame counter: is_fn_running() in the child is what   *)
(* it is in the parent when sub_env() is called, true when the parent has  *)
(* frames pushed.                                                          *)
(***************************************************************************)
C4_ChildStartsWithParentFrames ==
    (lastOp = <<"sub_env", "parent">>) =>
        /\ env["child"].fn_frame_env = env["parent"].fn_frame_env
        /\ is_fn_running(env["child"].fn_frame_env)
             = is_fn_running(env["parent"].fn_frame_env)

\* sub_env() was called inside a function: the child is inside one too.
C4_Witness ==
    /\ lastOp = <<"sub_env", "parent">>
    /\ is_fn_running(env["parent"].fn_frame_env)
    /\ is_fn_running(env["child"].fn_frame_env)

(***************************************************************************)
(* C31: pop_fn_frame on a counter of zero leaves it at zero and takes one  *)
(* off a counter above zero; push_fn_frame adds one; is_fn_running() is    *)
(* true exactly when the counter is above zero, so it is true after every  *)
(* push, whatever pops came before.                                        *)
(***************************************************************************)
C31_PopSaturatesPushAddsOne ==
    [][\A x \in DOMAIN env :
          /\ lastOp' = <<"pop_fn_frame", x>> =>
                /\ env[x].fn_frame_env = 0 => env'[x].fn_frame_env = 0
                /\ env[x].fn_frame_env > 0 =>
                      env'[x].fn_frame_env = env[x].fn_frame_env - 1
                /\ is_fn_running(env'[x].fn_frame_env) = (env[x].fn_frame_env > 1)
          /\ lastOp' = <<"push_fn_frame", x>> =>
                /\ env'[x].fn_frame_env = env[x].fn_frame_env + 1
                /\ is_fn_running(env'[x].fn_frame_env)]_vars

\* A pop has left the counter at zero: no function is running.
C31_Witness ==
    /\ lastOp = <<"pop_fn_frame", "parent">>
    /\ env["parent"].fn_frame_env = 0
    /\ ~is_fn_running(env["parent"].fn_frame_env)

(***************************************************************************)
(* While/until loops (src/src/spawn/loop_cmd.rs)                           *)
(***************************************************************************)
\* What a guard or body command can resolve to.
CmdOutcomes == {Ok(EXIT_SUCCESS), Ok(EXIT_ERROR), Ok(Code(42)),
                Err("fatal"), Err("nonfatal")}

Statuses == {EXIT_SUCCESS, EXIT_ERROR, Code(42)}

\* ExitStatus::success
success(status) == status = EXIT_SUCCESS

\* IsFatalError::is_fatal
is_fatal(e) == e = "fatal"

\* every error is passed on
swallow_non_fatal_errors_PassesAll(o) == o

\* swallow_non_fatal_errors: a non-fatal error is reported and becomes
\* EXIT_ERROR, a fatal one is passed on.
swallow_non_fatal_errors(o) ==
    IF o.ok \/ is_fatal(o.v) THEN o ELSE Ok(EXIT_ERROR)

\* mutant: invert_guard_status is ignored
should_continue_IgnoresInvert(status, invert_guard_status) == success(status)

\* let should_continue = status.success() ^ self.invert_guard_status
should_continue(status, invert_guard_status) ==
    success(status) # invert_guard_status

\* The commands of a guard or body of n commands.
CmdList(kind, n) == [i \in 1..n |-> <<kind, i>>]

\* mutant: the sequence gives back the list without its first command
VecSequence_new_DropsFirst(vec) ==
    [vec |-> IF vec = <<>> THEN vec ELSE Tail(vec), pos |-> 1,
     last |-> Ok(EXIT_SUCCESS)]

\* VecSequence::new
VecSequence_new(vec) == [vec |-> vec, pos |-> 1, last |-> Ok(EXIT_SUCCESS)]

\* loop_cmd
InitLoop ==
    /\ \E inv \in BOOLEAN, g \in 0..MaxCmds, b \in 0..MaxCmds :
         loop_cmd = [invert_guard_status |-> inv,
                     guard |-> CmdList("guard", g),
                     body |-> CmdList("body", b),
                     has_run_body |-> FALSE,
                     state |-> [tag |-> "Init"]]
    /\ last_status \in Statuses
    /\ polling = FALSE
    /\ loopResult = None
    /\ lastBody = None
    /\ loopLog = NoLog
    /\ decision = None
    /\ loopCancels = <<0, 0>>
    /\ IdlePipeline
    /\ IdleEnv
    /\ IdleSubshell
    /\ IdleParamSubst
    /\ IdleRestorer
    /\ IdleCalls
    /\ IdleCmdSubst
    /\ IdleWord
    /\ IdleEval
    /\ IdleRead

LoopLive == loop_cmd # None /\ loopResult = None /\ loopCancels[1] = 0

\* Loop::poll is entered: a loop whose guard and body are both empty bails out.
LoopPollEnter ==
    /\ LoopLive
    /\ ~polling
    /\ IF loop_cmd.guard = <<>> /\ loop_cmd.body = <<>>
       THEN /\ loopResult' = Ok(EXIT_SUCCESS)
            /\ UNCHANGED polling
       ELSE /\ polling' = TRUE
            /\ UNCHANGED loopResult
    /\ UNCHANGED <<loop_cmd, last_status, lastBody, decision, loopCancels, loopLog>>
    /\ UNCHANGED notLoopVars

\* The guard list is moved into a new sequence: from State::Init, and after
\* State::BodyLast (next_state None).
StartGuard(l) ==
    [l EXCEPT !.state = [tag |-> "Guard", seq |-> VecSequence_new(l.guard)],
              !.guard = <<>>]

\* State::Init
LoopInit ==
    /\ LoopLive
    /\ polling
    /\ loop_cmd.state.tag = "Init"
    /\ loop_cmd' = StartGuard(loop_cmd)
    /\ UNCHANGED <<last_status, polling, loopResult, lastBody, decision, loopCancels, loopLog>>
    /\ UNCHANGED notLoopVars

\* The running sequence polls its current command with the environment.  The
\* command resolves to o and, if sets, leaves its status in the environment's
\* last status (as a nested loop or a failed expansion does).  The errors of
\* all but the last command are handled here, the last command's result is
\* handed back to the loop.
SeqRunCmd(o, sets) ==
    /\ LoopLive
    /\ polling
    /\ loop_cmd.state.tag \in {"Guard", "Body"}
    /\ LET seq == loop_cmd.state.seq
           r == swallow_non_fatal_errors(o)
           st == IF r.ok THEN r.v ELSE EXIT_ERROR
       IN  /\ seq.pos <= Len(seq.vec)
           /\ last_status' = IF sets THEN st ELSE last_status
           /\ IF seq.pos < Len(seq.vec) /\ ~r.ok
              THEN /\ loopResult' = r
                   /\ polling' = FALSE
                   /\ UNCHANGED loop_cmd
              ELSE /\ loop_cmd' = [loop_cmd EXCEPT
                                     !.state.seq.pos = @ + 1,
                                     !.state.seq.last = IF seq.pos = Len(seq.vec)
                                                        THEN o ELSE @]
                   /\ UNCHANGED <<loopResult, polling>>
           /\ loopLog' = [lastRun |-> [cmd |-> seq.vec[seq.pos], o |-> o],
                          bodyRan |-> loopLog.bodyRan
                                      \/ loop_cmd.state.tag = "Body",
                          nonfatal |-> loopLog.nonfatal
                                       \/ (~o.ok /\ ~is_fatal(o.v))]
    /\ UNCHANGED <<lastBody, decision, loopCancels>>
    /\ UNCHANGED notLoopVars

\* try_ready!: the inner future is not ready, Loop::poll returns NotReady.
LoopNotReady ==
    /\ LoopLive
    /\ polling
    /\ \/ /\ loop_cmd.state.tag \in {"Guard", "Body"}
          /\ loop_cmd.state.seq.pos <= Len(loop_cmd.state.seq.vec)
       \/ loop_cmd.state.tag \in {"GuardLast", "BodyLast"}
    /\ polling' = FALSE
    /\ UNCHANGED <<loop_cmd, last_status, loopResult, lastBody, decision, loopCancels, loopLog>>
    /\ UNCHANGED notLoopVars

\* State::Guard, the sequence is ready: self.guard = guard
LoopGuard ==
    /\ LoopLive
    /\ polling
    /\ loop_cmd.state.tag = "Guard"
    /\ loop_cmd.state.seq.pos > Len(loop_cmd.state.seq.vec)
    /\ loop_cmd' = [loop_cmd EXCEPT
                      !.guard = loop_cmd.state.seq.vec,
                      !.state = [tag |-> "GuardLast", f |-> loop_cmd.state.seq.last]]
    /\ UNCHANGED <<last_status, polling, loopResult, lastBody, decision, loopCancels, loopLog>>
    /\ UNCHANGED notLoopVars

\* The guard says stop: what the environment's last status holds then.
StopStatus_KeepsLastStatus(has_run_body, status) == status

\* if !self.has_run_body { env.set_last_status(EXIT_SUCCESS) }
StopStatus(has_run_body, status) ==
    IF ~has_run_body THEN EXIT_SUCCESS ELSE status

\* State::GuardLast
LoopGuardLast ==
    /\ LoopLive
    /\ polling
    /\ loop_cmd.state.tag = "GuardLast"
    /\ LET r == swallow_non_fatal_errors(loop_cmd.state.f) IN
       IF ~r.ok
       THEN /\ loopResult' = r
            /\ polling' = FALSE
            /\ UNCHANGED <<loop_cmd, last_status, decision>>
       ELSE IF ~should_continue(r.v, loop_cmd.invert_guard_status)
       THEN \* env.set_last_status(EXIT_SUCCESS) if the body never ran;
            \* return Ok(Async::Ready(env.last_status()))
            /\ last_status' = StopStatus(loop_cmd.has_run_body, last_status)
            /\ loopResult' = Ok(last_status')
            /\ polling' = FALSE
            /\ decision' = [guard |-> r.v, runs_body |-> FALSE]
            /\ UNCHANGED loop_cmd
       ELSE \* env.set_last_status(status); the body is moved into a sequence
            /\ last_status' = r.v
            /\ loop_cmd' = [loop_cmd EXCEPT
                              !.state = [tag |-> "Body",
                                         seq |-> VecSequence_new(loop_cmd.body)],
                              !.body = <<>>]
            /\ decision' = [guard |-> r.v, runs_body |-> TRUE]
            /\ UNCHANGED <<loopResult, polling>>
    /\ UNCHANGED <<lastBody, loopCancels, loopLog>>
    /\ UNCHANGED notLoopVars

\* State::Body, the sequence is ready: has_run_body = true, self.body = body
LoopBody ==
    /\ LoopLive
    /\ polling
    /\ loop_cmd.state.tag = "Body"
    /\ loop_cmd.state.seq.pos > Len(loop_cmd.state.seq.vec)
    /\ loop_cmd' = [loop_cmd EXCEPT
                      !.has_run_body = TRUE,
                      !.body = loop_cmd.state.seq.vec,
                      !.state = [tag |-> "BodyLast", f |-> loop_cmd.state.seq.last]]
    /\ UNCHANGED <<last_status, polling, loopResult, lastBody, decision, loopCancels, loopLog>>
    /\ UNCHANGED notLoopVars

\* State::BodyLast: env.set_last_status(status), then the guard again
LoopBodyLast ==
    /\ LoopLive
    /\ polling
    /\ loop_cmd.state.tag = "BodyLast"
    /\ LET r == swallow_non_fatal_errors(loop_cmd.state.f) IN
       IF ~r.ok
       THEN /\ loopResult' = r
            /\ polling' = FALSE
            /\ UNCHANGED <<loop_cmd, last_status, lastBody>>
       ELSE /\ last_status' = r.v
            /\ lastBody' = r.v
            /\ loop_cmd' = StartGuard(loop_cmd)
            /\ UNCHANGED <<loopResult, polling>>
    /\ UNCHANGED <<decision, loopCancels, loopLog>>
    /\ UNCHANGED notLoopVars

\* Loop::cancel: passed on to the running sequence in Guard and Body, nothing
\* otherwise; the loop's own state is left as it is.
LoopCancel ==
    /\ loop_cmd # None
    /\ loopResult = None
    /\ ~polling
    /\ loopCancels[1] < MaxCancels
    /\ loopCancels' = <<loopCancels[1] + 1,
                        IF loop_cmd.state.tag \in {"Guard", "Body"}
                        THEN loopCancels[2] + 1 ELSE loopCancels[2]>>
    /\ UNCHANGED <<loop_cmd, last_status, polling, loopResult, lastBody, decision,
                   loopLog>>
    /\ UNCHANGED notLoopVars

NextLoop ==
    \/ LoopPollEnter
    \/ LoopInit
    \/ \E o \in CmdOutcomes, sets \in BOOLEAN : SeqRunCmd(o, sets)
    \/ LoopNotReady
    \/ LoopGuard
    \/ LoopGuardLast
    \/ LoopBody
    \/ LoopBodyLast
    \/ LoopCancel

SpecLoop == InitLoop /\ [][NextLoop]_vars

\* The guard list and the body list of the loop, wherever they are: in the
\* Loop, or moved into the sequence that is running.
GuardList ==
    IF loop_cmd.state.tag = "Guard" THEN loop_cmd.state.seq.vec ELSE loop_cmd.guard
BodyList ==
    IF loop_cmd.state.tag = "Body" THEN loop_cmd.state.seq.vec ELSE loop_cmd.body

(***************************************************************************)
(* C34: every iteration runs the same complete guard list and the same     *)
(* complete body list: the two lists never change, a sequence starts at    *)
(* the first command of the whole list, and when it finishes every command *)
(* has run and the list is back in the Loop.                               *)
(***************************************************************************)
C34_ListsPutBackWhole ==
    [][loop_cmd # None =>
         /\ GuardList' = GuardList
         /\ BodyList' = BodyList
         /\ (loop_cmd.state.tag # "Guard" /\ loop_cmd'.state.tag = "Guard") =>
               /\ loop_cmd'.state.seq.vec = loop_cmd.guard
               /\ loop_cmd'.state.seq.pos = 1
         /\ (loop_cmd.state.tag # "Body" /\ loop_cmd'.state.tag = "Body") =>
               /\ loop_cmd'.state.seq.vec = loop_cmd.body
               /\ loop_cmd'.state.seq.pos = 1
         /\ (loop_cmd.state.tag = "Guard" /\ loop_cmd'.state.tag # "Guard") =>
               /\ loop_cmd.state.seq.pos > Len(loop_cmd.state.seq.vec)
               /\ loop_cmd'.guard = loop_cmd.state.seq.vec
         /\ (loop_cmd.state.tag = "Body" /\ loop_cmd'.state.tag # "Body") =>
               /\ loop_cmd.state.seq.pos > Len(loop_cmd.state.seq.vec)
               /\ loop_cmd'.body = loop_cmd.state.seq.vec]_vars

\* The body is starting again after it has run once, with both lists whole.
C34_Witness ==
    /\ loop_cmd # None
    /\ loop_cmd.has_run_body
    /\ loop_cmd.state.tag = "Body"
    /\ loop_cmd.state.seq.pos = 1
    /\ loop_cmd.state.seq.vec = CmdList("body", 2)
    /\ loop_cmd.guard = CmdList("guard", 2)

\* C9: when the guard stops a loop that has run its body at least once, the
\* loop resolves to the exit status of the last body execution, whatever the
\* guard's commands left in the environment's last status.
C9_LoopStatusIsLastBodyStatus ==
    (/\ loopResult # None
     /\ loopResult.ok
     /\ decision # None
     /\ ~decision.runs_body
     /\ loop_cmd.has_run_body)
    => loopResult.v = lastBody

\* C10: after each guard run the body is started iff
\* guard.success() XOR invert_guard_status.
C10_BodyRunsIffGuardXorInvert ==
    decision # None =>
        (decision.runs_body <=>
            (success(decision.guard) # loop_cmd.invert_guard_status))

\* an until loop has started its body on a failing guard
C10_Witness ==
    /\ decision # None
    /\ decision.runs_body
    /\ loop_cmd.invert_guard_status
    /\ ~success(decision.guard)
    /\ loop_cmd.state.tag = "Body"

\* C11: when the guard stops the loop before the body has ever run, the
\* environment's last status is set to EXIT_SUCCESS and the loop resolves to
\* EXIT_SUCCESS, whatever the guard's status was, and no body command has run.
C11_NoBodyRunGivesSuccess ==
    (/\ loopResult # None
     /\ decision # None
     /\ ~decision.runs_body
     /\ ~loop_cmd.has_run_body)
    => /\ loopResult = Ok(EXIT_SUCCESS)
       /\ last_status = EXIT_SUCCESS
       /\ ~loopLog.bodyRan

\* the guard of a while loop with a body failed with status 42 at once
C11_Witness ==
    /\ loopResult = Ok(EXIT_SUCCESS)
    /\ decision = [guard |-> Code(42), runs_body |-> FALSE]
    /\ ~loop_cmd.invert_guard_status
    /\ ~loop_cmd.has_run_body
    /\ loop_cmd.body # <<>>

Impls == {"Subshell::poll", "subshell_with_env"}
Builds == {"debug", "release"}

Panic(msg) == [panic |-> msg]

\* Subshell::poll, Err(err): the error is reported and the sub-environment's
\* last status is handed out; debug_assert_eq!(exit.success(), false) stops a
\* debug build.
Subshell_poll_Err(build, exit) ==
    IF build = "debug" /\ success(exit)
    THEN Panic("assertion failed")
    ELSE Ok(exit)

\* subshell_with_env, Err(e): the error is reported, EXIT_ERROR
subshell_with_env_Err == Ok(EXIT_ERROR)

\* subshell: env.sub_env() copies the caller's last status
InitSubshell ==
    /\ \E i \in Impls, b \in Builds, n \in 0..MaxCmds, st \in Statuses :
         subshell = [impl |-> i, build |-> b, n |-> n, pos |-> 1,
                     last_status |-> st, exit |-> EXIT_SUCCESS]
    /\ subResult = None
    /\ subErr = None
    /\ IdlePipeline
    /\ IdleEnv
    /\ IdleLoop
    /\ IdleParamSubst
    /\ IdleRestorer
    /\ IdleCalls
    /\ IdleCmdSubst
    /\ IdleWord
    /\ IdleEval
    /\ IdleRead

SubshellLive == subshell # None /\ subResult = None

\* One of the subshell's commands has run; a non-fatal error is reported and
\* counts as EXIT_ERROR.  The command may leave its status in last status.
SubshellCmd(o, sets) ==
    /\ SubshellLive
    /\ subshell.pos <= subshell.n
    /\ LET r == swallow_non_fatal_errors(o) IN
       /\ r.ok
       /\ subshell' = [subshell EXCEPT
                         !.pos = @ + 1,
                         !.exit = r.v,
                         !.last_status = IF sets THEN r.v ELSE @]
    /\ UNCHANGED <<subResult, subErr>>
    /\ UNCHANGED notSubVars

\* The commands are through: the subshell resolves to the last one's status
\* (EXIT_SUCCESS for no commands at all).
SubshellReady ==
    /\ SubshellLive
    /\ subshell.pos > subshell.n
    /\ subResult' = Ok(subshell.exit)
    /\ UNCHANGED <<subshell, subErr>>
    /\ UNCHANGED notSubVars

\* A command fails with an error: the implementation's Err arm.  The failing
\* command may have set last status to EXIT_ERROR before failing.
SubshellErr(e, sets) ==
    /\ SubshellLive
    /\ subshell.pos <= subshell.n
    /\ LET exit == IF sets THEN EXIT_ERROR ELSE subshell.last_status IN
       /\ subshell' = [subshell EXCEPT !.last_status = exit]
       /\ subResult' = IF subshell.impl = "Subshell::poll"
                       THEN Subshell_poll_Err(subshell.build, exit)
                       ELSE subshell_with_env_Err
    /\ subErr' = Err(e)
    /\ UNCHANGED notSubVars

NextSubshell ==
    \/ \E o \in CmdOutcomes, sets \in BOOLEAN : SubshellCmd(o, sets)
    \/ SubshellReady
    \/ \E e \in {"fatal"}, sets \in BOOLEAN : SubshellErr(e, sets)

SpecSubshell == InitSubshell /\ [][NextSubshell]_vars

\* C8: a subshell never yields an error: when its commands fail with an
\* error, it resolves to an unsuccessful ExitStatus, whatever the
\* sub-environment's last status was when the error occurred.
C8_SubshellErrorGivesNonZeroStatus ==
    (subResult # None /\ subErr # None) =>
        /\ "ok" \in DOMAIN subResult
        /\ subResult.ok
        /\ ~success(subResult.v)

(***************************************************************************)
(* Parameter substitution (src/src/eval/ast_impl/param_subst.rs)           *)
(***************************************************************************)
CANCELLED_TWICE == "CANCELLED_TWICE"
POLLED_TWICE == "POLLED_TWICE"

\* The variants of Inner a substitution starts in.
InnerKinds == {"CommandInit", "Len", "Arith", "Default", "Assign", "Error",
               "Alternative", "RemoveSmallestSuffix", "RemoveLargestSuffix",
               "RemoveSmallestPrefix", "RemoveLargestPrefix"}

\* The variants that hold no environment future to cancel.
NothingToCancel == {"Len", "Arith", "Command"}

InitParamSubst ==
    /\ inner \in InnerKinds
    /\ psResult = None
    /\ psPanic = None
    /\ psCancels = <<0, 0>>
    /\ IdlePipeline
    /\ IdleEnv
    /\ IdleLoop
    /\ IdleSubshell
    /\ IdleRestorer
    /\ IdleCalls
    /\ IdleCmdSubst
    /\ IdleWord
    /\ IdleEval
    /\ IdleRead

ParamSubstLive == inner # "Idle" /\ psResult = None /\ psPanic = None

\* Inner::poll, one arm; r is what the polled future gives (None: NotReady).
InnerPoll(r) ==
    /\ ParamSubstLive
    /\ CASE inner = "Gone" ->
              /\ psPanic' = Panic(POLLED_TWICE)
              /\ UNCHANGED <<inner, psResult>>
         [] inner = "CommandInit" ->
              /\ r # None
              /\ IF r.ok
                 THEN inner' = "Command" /\ UNCHANGED psResult
                 ELSE psResult' = r /\ UNCHANGED inner
              /\ UNCHANGED psPanic
         [] inner = "Len" ->
              /\ r = Ok("fields")
              /\ psResult' = r
              /\ UNCHANGED <<inner, psPanic>>
         [] OTHER ->
              /\ r # None
              /\ psResult' = r
              /\ UNCHANGED <<inner, psPanic>>
    /\ UNCHANGED psCancels
    /\ UNCHANGED notPsVars

\* mutant: a cancelled substitution takes a second cancel silently
Inner_cancel_Idempotent(i) ==
    [inner |-> "Gone",
     passed_on |-> i \notin NothingToCancel \cup {"Gone"},
     panic |-> None]

\* Inner::cancel: the new state, whether the cancel is passed on to the inner
\* future, and the panic if there is one.
Inner_cancel(i) ==
    IF i = "Gone"
    THEN [inner |-> i, passed_on |-> FALSE, panic |-> Panic(CANCELLED_TWICE)]
    ELSE [inner |-> "Gone", passed_on |-> i \notin NothingToCancel, panic |-> None]

\* ParameterSubstitution::cancel
InnerCancel ==
    /\ ParamSubstLive
    /\ psCancels[1] < MaxCancels
    /\ LET c == Inner_cancel(inner) IN
       /\ inner' = c.inner
       /\ psPanic' = c.panic
       /\ psCancels' = <<psCancels[1] + 1,
                         IF c.passed_on THEN psCancels[2] + 1 ELSE psCancels[2]>>
    /\ UNCHANGED psResult
    /\ UNCHANGED notPsVars

NextParamSubst ==
    \/ \E r \in {None, Ok("fields"), Err("fatal")} : InnerPoll(r)
    \/ InnerCancel

SpecParamSubst == InitParamSubst /\ [][NextParamSubst]_vars

(***************************************************************************)
(* A Restorer scope: a command's redirects and variable assignments are    *)
(* evaluated left to right and installed through the Restorer.             *)
(***************************************************************************)
\* The variable the assignments write and the file descriptor the redirects
\* touch.
VarKey == "key"
FdKey == "fd1"
Prior == 9

\* What an item does when it is evaluated.
Items ==
    {[kind |-> "VarAssig", does |-> d] : d \in {"set", "err"}}
    \cup {[kind |-> "Redirect", does |-> d] : d \in {"open", "close", "err"}}

ItemLists == UNION {[1..n -> Items] : n \in 1..MaxItems}

\* mutant: the journal keeps the latest prior binding
Backup_KeepsLatest(journal, key, prior) ==
    [k \in DOMAIN journal \cup {key} |-> IF k = key THEN prior ELSE journal[k]]

\* The prior binding of a key is recorded once per Restorer: the earliest.
Backup(journal, key, prior) ==
    IF key \in DOMAIN journal
    THEN journal
    ELSE [k \in DOMAIN journal \cup {key} |-> IF k = key THEN prior ELSE journal[k]]

\* every change records the binding it replaces
Restorer_write_RecordsEveryChange(r, key, value) ==
    [r EXCEPT !.journal = Backup_KeepsLatest(@, key, r.table[key]),
              !.table[key] = value]

\* Restorer::set_var, set_file_desc, close_file_desc: record, then write through
Restorer_write(r, key, value) ==
    [r EXCEPT !.journal = Backup(@, key, r.table[key]),
              !.table[key] = value]

\* Restorer::restore: the journals are replayed
Restorer_restore(r) ==
    [r EXCEPT !.table = [k \in DOMAIN r.table |->
                           IF k \in DOMAIN r.journal THEN r.journal[k]
                           ELSE r.table[k]],
              !.journal = <<>>,
              !.undone = @ + Cardinality(DOMAIN r.journal)]

\* the variables are put back along with the redirects
Restorer_restore_redirects_AndVars(r) == Restorer_restore(r)

\* Restorer::restore_redirects: only the fd journal is replayed
Restorer_restore_redirects(r) ==
    [r EXCEPT !.table = [k \in DOMAIN r.table |->
                           IF k \in DOMAIN r.journal \cap {FdKey} THEN r.journal[k]
                           ELSE r.table[k]],
              !.journal = [k \in DOMAIN r.journal \ {FdKey} |-> r.journal[k]],
              !.undone = @ + Cardinality(DOMAIN r.journal \cap {FdKey})]

InitRestorer ==
    /\ \E t \in [{VarKey, FdKey} -> {Absent, Prior}], l \in ItemLists,
          w \in BOOLEAN :
         restorer = [table |-> t, pre |-> t, journal |-> <<>>, items |-> l,
                     cmd_word |-> w, pos |-> 1, evaluated |-> {}, undone |-> 0,
                     status |-> "running"]
    /\ IdlePipeline
    /\ IdleEnv
    /\ IdleLoop
    /\ IdleSubshell
    /\ IdleParamSubst
    /\ IdleCalls
    /\ IdleCmdSubst
    /\ IdleWord
    /\ IdleEval
    /\ IdleRead

RestorerRunning ==
    /\ restorer # None
    /\ restorer.status = "running"

\* The next item is evaluated; on an error everything is undone and the error
\* is passed on.
EvalItem(kind, key) ==
    /\ RestorerRunning
    /\ restorer.pos <= Len(restorer.items)
    /\ restorer.items[restorer.pos].kind = kind
    /\ LET it == restorer.items[restorer.pos]
           r == [restorer EXCEPT !.evaluated = @ \cup {restorer.pos}]
       IN  restorer' =
             IF it.does = "err"
             THEN [Restorer_restore(r) EXCEPT !.status = "error"]
             ELSE [Restorer_write(r, key,
                                  IF it.does = "close" THEN Absent
                                  ELSE restorer.pos)
                   EXCEPT !.pos = @ + 1]
    /\ UNCHANGED notRestVars

EvalVarAssig == EvalItem("VarAssig", VarKey)

EvalRedirect == EvalItem("Redirect", FdKey)

\* cancel: everything installed so far is undone
EvalCancel ==
    /\ RestorerRunning
    /\ restorer' = [Restorer_restore(restorer) EXCEPT !.status = "cancelled"]
    /\ UNCHANGED notRestVars

\* Every item went through: the Restorer is handed to the caller, applied.
EvalDone ==
    /\ RestorerRunning
    /\ restorer.pos > Len(restorer.items)
    /\ restorer' = [restorer EXCEPT !.status = "done"]
    /\ UNCHANGED notRestVars

\* The caller restores, or drops the Restorer.
RestorerDrop ==
    /\ restorer # None
    /\ restorer.status = "done"
    /\ restorer' = [Restorer_restore(restorer) EXCEPT !.status = "restored"]
    /\ UNCHANGED notRestVars

\* A simple command without a command word: the assignments stay, the
\* redirects are undone.
SimpleNoCommand ==
    /\ restorer # None
    /\ restorer.status = "done"
    /\ ~restorer.cmd_word
    /\ restorer' = [Restorer_restore_redirects(restorer) EXCEPT
                      !.status = "assigned"]
    /\ UNCHANGED notRestVars

\* A simple command with a command word: the command runs with the
\* assignments and redirects in place.
SimpleSpawn ==
    /\ restorer # None
    /\ restorer.status = "done"
    /\ restorer.cmd_word
    /\ restorer' = [restorer EXCEPT !.status = "spawned"]
    /\ UNCHANGED notRestVars

\* The command has finished: the assignments and redirects are undone.
SimpleFinished ==
    /\ restorer # None
    /\ restorer.status = "spawned"
    /\ restorer' = [Restorer_restore(restorer) EXCEPT !.status = "finished"]
    /\ UNCHANGED notRestVars

NextRestorer ==
    \/ SimpleNoCommand
    \/ SimpleSpawn
    \/ SimpleFinished
    \/ EvalVarAssig
    \/ EvalRedirect
    \/ EvalCancel
    \/ EvalDone
    \/ RestorerDrop

SpecRestorer == InitRestorer /\ [][NextRestorer]_vars

\* C6: when the evaluation through a Restorer fails part-way or is
\* cancelled, everything installed so far is undone: the file descriptors and
\* variables equal their pre-scope values, and no item after the failing one
\* has been evaluated.
C6_FailureOrCancelRestoresEnv ==
    (restorer # None /\ restorer.status \in {"error", "cancelled"}) =>
        /\ restorer.table = restorer.pre
        /\ restorer.status = "error" => restorer.evaluated = 1..restorer.pos
        /\ restorer.status = "cancelled" =>
              restorer.evaluated = 1..(restorer.pos - 1)

\* a redirect and an assignment over bound values were installed, the next
\* item failed and one more item was left
C6_Witness ==
    /\ restorer # None
    /\ restorer.status = "error"
    /\ restorer.undone = 2
    /\ restorer.pos = 3
    /\ restorer.pos < Len(restorer.items)
    /\ restorer.pre = [k \in {VarKey, FdKey} |-> Prior]

\* The number of items of a kind that were installed.
Changes(r, kind) ==
    Cardinality({i \in r.evaluated :
                   r.items[i].kind = kind /\ r.items[i].does # "err"})

\* C17: a name or descriptor changed several times through one Restorer goes
\* back to the binding it had before the first change (unset or closed if it
\* had none), never to an intermediate value.
C17_RestoreGivesEarliestBinding ==
    restorer # None =>
        /\ \A k \in DOMAIN restorer.journal :
              restorer.journal[k] = restorer.pre[k]
        /\ restorer.status \in {"restored", "finished"} =>
              restorer.table = restorer.pre
        /\ restorer.status = "assigned" =>
              restorer.table[FdKey] = restorer.pre[FdKey]

\* the variable, bound before, was assigned twice and the descriptor, closed
\* before, was opened twice; then the Restorer restored both
C17_Witness ==
    /\ restorer # None
    /\ restorer.status = "restored"
    /\ Changes(restorer, "VarAssig") = 2
    /\ Changes(restorer, "Redirect") = 2
    /\ \A i \in restorer.evaluated : restorer.items[i].does \in {"set", "open"}
    /\ restorer.pre = [k \in {VarKey, FdKey} |-> IF k = VarKey THEN Prior ELSE Absent]
    /\ restorer.table = restorer.pre
    /\ restorer.undone = 2

\* The last assignment among the items, 0 if there is none.
LastAssign(items) ==
    LET is == {i \in 1..Len(items) : items[i].kind = "VarAssig"} IN
    IF is = {} THEN 0 ELSE CHOOSE i \in is : \A j \in is : j <= i

\* C16: the assignments of a simple command stay in the caller's environment
\* iff the command has no command word (its redirects are undone all the
\* same); with a command word the variables and the redirects are back at
\* their prior bindings once the command has finished.
C16_AssignmentsPersistIffNoCommandWord ==
    /\ (restorer # None /\ restorer.status = "assigned") =>
          /\ restorer.table[FdKey] = restorer.pre[FdKey]
          /\ restorer.table[VarKey] =
                IF LastAssign(restorer.items) = 0 THEN restorer.pre[VarKey]
                ELSE LastAssign(restorer.items)
    /\ (restorer # None /\ restorer.status = "spawned") =>
          (LastAssign(restorer.items) # 0 =>
              restorer.table[VarKey] = LastAssign(restorer.items))
    /\ (restorer # None /\ restorer.status = "finished") =>
          restorer.table = restorer.pre

\* `key=.. >file` without a command word over a bound variable and an open
\* descriptor: the variable keeps its new value, the descriptor is back
C16_Witness ==
    /\ restorer # None
    /\ restorer.status = "assigned"
    /\ restorer.pre = [k \in {VarKey, FdKey} |-> Prior]
    /\ restorer.table[VarKey] \notin {Absent, Prior}
    /\ restorer.table[FdKey] = Prior
    /\ restorer.undone = 1

(***************************************************************************)
(* Function calls: the args are swapped and a function frame is pushed for *)
(* the time the body runs.                                                 *)
(***************************************************************************)
ArgLists == {<<"foo", "bar">>, <<"qux">>}

InitCalls ==
    /\ fnEnv \in [args : ArgLists, num_frames : {FnFrameEnv_new}]
    /\ calls = <<>>
    /\ lastExit = None
    /\ unwinding = "no"
    /\ IdlePipeline
    /\ IdleEnv
    /\ IdleLoop
    /\ IdleSubshell
    /\ IdleParamSubst
    /\ IdleRestorer
    /\ IdleCmdSubst
    /\ IdleWord
    /\ IdleEval
    /\ IdleRead

\* A function is called, from the top level or from a function's body: the
\* current args are captured, the new ones swapped in and a frame is pushed.
FnCall(name, new_args) ==
    /\ fnEnv # None
    /\ unwinding = "no"
    /\ Len(calls) < MaxFrames
    /\ calls' = Append(calls, [name |-> name, saved_args |-> fnEnv.args,
                               caller_frames |-> fnEnv.num_frames])
    /\ fnEnv' = [args |-> new_args, num_frames |-> push_fn_frame(fnEnv.num_frames)]
    /\ UNCHANGED <<lastExit, unwinding>>
    /\ UNCHANGED notCallVars

\* The body of the running function changes the args.
BodySetArgs(new_args) ==
    /\ fnEnv # None
    /\ unwinding = "no"
    /\ calls # <<>>
    /\ fnEnv.args # new_args
    /\ fnEnv' = [fnEnv EXCEPT !.args = new_args]
    /\ UNCHANGED <<calls, lastExit, unwinding>>
    /\ UNCHANGED notCallVars

\* The innermost call ends: the frame is popped and the args are restored.
ExitCall(how, then) ==
    LET top == calls[Len(calls)] IN
    /\ fnEnv' = [args |-> top.saved_args,
                 num_frames |-> pop_fn_frame(fnEnv.num_frames)]
    /\ calls' = SubSeq(calls, 1, Len(calls) - 1)
    /\ lastExit' = [how |-> how, name |-> top.name, depth |-> Len(calls),
                    args_before |-> fnEnv.args, args_after |-> fnEnv'.args,
                    caller_args |-> top.saved_args,
                    frames_after |-> fnEnv'.num_frames,
                    caller_frames |-> top.caller_frames]
    /\ unwinding' = IF calls' = <<>> THEN "no" ELSE then
    /\ UNCHANGED notCallVars

\* The body completed.
FnReturn ==
    /\ calls # <<>>
    /\ unwinding = "no"
    /\ ExitCall("normal", "no")

\* The body failed; the caller's body handles the error or fails with it.
FnError(caught) ==
    /\ calls # <<>>
    /\ unwinding \in {"no", "error"}
    /\ ExitCall("error", IF caught THEN "no" ELSE "error")

\* The call is cancelled: the body's cancel, then the frame and the args; a
\* cancelled call cancels the calls made from its body first.
FnCancel ==
    /\ calls # <<>>
    /\ unwinding \in {"no", "cancel"}
    /\ ExitCall("cancel", "cancel")

NextCalls ==
    \/ \E name \in FnNames, a \in ArgLists : FnCall(name, a)
    \/ \E a \in ArgLists : BodySetArgs(a)
    \/ FnReturn
    \/ \E caught \in BOOLEAN : FnError(caught)
    \/ FnCancel

SpecCalls == InitCalls /\ [][NextCalls]_vars

\* C7: is_fn_running() is true inside a function's body, and on every way
\* out (normal completion, error, cancellation) the caller's args are back
\* and the frame is popped, for nested and recursive calls too.
C7_CallRestoresArgsAndFrame ==
    /\ calls # <<>> => is_fn_running(fnEnv.num_frames)
    /\ (fnEnv # None /\ calls = <<>>) => ~is_fn_running(fnEnv.num_frames)
    /\ lastExit # None =>
          /\ lastExit.args_after = lastExit.caller_args
          /\ lastExit.frames_after = lastExit.caller_frames

\* a recursive call whose body had changed the args failed, and the outer
\* call of the same function is still running
C7_Witness ==
    /\ lastExit # None
    /\ lastExit.how = "error"
    /\ lastExit.depth = 2
    /\ lastExit.args_before # lastExit.args_after
    /\ Len(calls) = 1
    /\ calls[1].name = lastExit.name
    /\ is_fn_running(fnEnv.num_frames)

(***************************************************************************)
(* Command substitution: run_cmd_subst (src/src/runtime/eval/parameter.rs) *)
(***************************************************************************)
\* What the body writes to its standard output.
Bytes == {"a", "nl", "xFF"}

\* Trailing newlines are trimmed.
RECURSIVE TrimNewlines(_)
TrimNewlines(buf) ==
    IF buf # <<>> /\ buf[Len(buf)] = "nl"
    THEN TrimNewlines(SubSeq(buf, 1, Len(buf) - 1))
    ELSE buf

\* String::from_utf8
from_utf8(buf) ==
    IF \E i \in 1..Len(buf) : buf[i] = "xFF" THEN Err("InvalidData") ELSE Ok(buf)

\* the writer is taken out of the Rc whoever else holds it
try_unwrap_Always(rc) == TRUE

\* Rc::try_unwrap succeeds for the only holder
try_unwrap(rc) == rc = 1

InitCmdSubst ==
    /\ cs = [pc |-> "Pipe::new", rc |-> 0, leaked |-> 0, written |-> 0,
             pipe |-> <<>>, buf |-> <<>>, thread |-> "none", result |-> None]
    /\ IdlePipeline
    /\ IdleEnv
    /\ IdleLoop
    /\ IdleSubshell
    /\ IdleParamSubst
    /\ IdleRestorer
    /\ IdleCalls
    /\ IdleWord
    /\ IdleEval
    /\ IdleRead

CsAt(pc) == cs # None /\ cs.pc = pc

CsFail(e) == [cs EXCEPT !.pc = "returned", !.result = Err(e)]

\* let Pipe { reader, writer } = try!(Pipe::new())
CsPipeNew(ok) ==
    /\ CsAt("Pipe::new")
    /\ cs' = IF ok THEN [cs EXCEPT !.pc = "spawn", !.rc = 1] ELSE CsFail("io")
    /\ UNCHANGED notCsVars

\* try!(thread::Builder::new().spawn(..)): the thread copies the pipe's reader
CsSpawn(ok) ==
    /\ CsAt("spawn")
    /\ cs' = IF ok THEN [cs EXCEPT !.pc = "sub_env", !.thread = "copying"]
             ELSE [CsFail("io") EXCEPT !.rc = 0]
    /\ UNCHANGED notCsVars

\* env.sub_env(); env.set_file_desc(STDOUT_FILENO, cmd_stdout_fd.clone(), ..)
CsSubEnv ==
    /\ CsAt("sub_env")
    /\ cs' = [cs EXCEPT !.pc = "body", !.rc = @ + 1]
    /\ UNCHANGED notCsVars

\* run_as_subshell: the body writes to its standard output
CsBodyWrite(b) ==
    /\ CsAt("body")
    /\ cs.written < MaxOut
    /\ cs' = [cs EXCEPT !.pipe = Append(@, b), !.written = @ + 1]
    /\ UNCHANGED notCsVars

\* run_as_subshell: a clone of the standard output handle outlives the body
CsBodyLeak ==
    /\ CsAt("body")
    /\ cs.leaked < MaxLeaks
    /\ cs' = [cs EXCEPT !.rc = @ + 1, !.leaked = @ + 1]
    /\ UNCHANGED notCsVars

\* run_as_subshell returns; its result is ignored
CsBodyDone ==
    /\ CsAt("body")
    /\ cs' = [cs EXCEPT !.pc = "drop(env)"]
    /\ UNCHANGED notCsVars

\* drop(env)
CsDropEnv ==
    /\ CsAt("drop(env)")
    /\ cs' = [cs EXCEPT !.pc = "try_unwrap", !.rc = @ - 1]
    /\ UNCHANGED notCsVars

\* try!(Rc::try_unwrap(cmd_stdout_fd).map_err(..WouldBlock..))
CsTryUnwrap ==
    /\ CsAt("try_unwrap")
    /\ cs' = IF try_unwrap(cs.rc) THEN [cs EXCEPT !.pc = "drop(cmd_stdout_fd)"]
             ELSE CsFail("WouldBlock")
    /\ UNCHANGED notCsVars

\* drop(cmd_stdout_fd)
CsDropFd ==
    /\ CsAt("drop(cmd_stdout_fd)")
    /\ cs' = [cs EXCEPT !.pc = "join", !.rc = @ - 1]
    /\ UNCHANGED notCsVars

\* the thread: io::copy moves what is in the pipe into buf
CsReaderCopy ==
    /\ cs # None
    /\ cs.thread = "copying"
    /\ cs.pipe # <<>>
    /\ cs' = [cs EXCEPT !.buf = Append(@, cs.pipe[1]), !.pipe = Tail(@)]
    /\ UNCHANGED notCsVars

\* the thread: end of input, once the pipe is empty and no write end is open
CsReaderEof ==
    /\ cs # None
    /\ cs.thread = "copying"
    /\ cs.pipe = <<>>
    /\ cs.rc = 0
    /\ cs' = [cs EXCEPT !.thread = "finished"]
    /\ UNCHANGED notCsVars

\* the thread: io::copy fails
CsReaderFail ==
    /\ cs # None
    /\ cs.thread = "copying"
    /\ cs.pc # "returned"
    /\ cs' = [cs EXCEPT !.thread = "failed"]
    /\ UNCHANGED notCsVars

\* child_thread.join(), then the trailing newlines and String::from_utf8
CsJoin ==
    /\ CsAt("join")
    /\ cs.thread \in {"finished", "failed"}
    /\ cs' = [cs EXCEPT
                !.pc = "returned",
                !.result = IF cs.thread = "failed" THEN Err("io")
                           ELSE from_utf8(TrimNewlines(cs.buf))]
    /\ UNCHANGED notCsVars

NextCmdSubst ==
    \/ \E ok \in BOOLEAN : CsPipeNew(ok)
    \/ \E ok \in BOOLEAN : CsSpawn(ok)
    \/ CsSubEnv
    \/ \E b \in Bytes : CsBodyWrite(b)
    \/ CsBodyLeak
    \/ CsBodyDone
    \/ CsDropEnv
    \/ CsTryUnwrap
    \/ CsDropFd
    \/ CsReaderCopy
    \/ CsReaderEof
    \/ CsReaderFail
    \/ CsJoin

SpecCmdSubst == InitCmdSubst /\ [][NextCmdSubst]_vars

\* C15: command substitution never waits for the captured output while a
\* write end of the pipe is open: when it joins the capturing thread every
\* write end is closed, so the thread can still copy or sees end of input;
\* with a write end left open it fails with an error instead of waiting.
C15_NoWaitWithOpenWriter ==
    /\ CsAt("join") =>
          /\ cs.rc = 0
          /\ cs.thread = "copying" => (cs.pipe # <<>> \/ cs.rc = 0)
    /\ (cs # None /\ cs.pc \in {"try_unwrap", "drop(cmd_stdout_fd)", "join", "returned"}
        /\ cs.leaked > 0 /\ cs.result # None) => cs.result = Err("WouldBlock")

\* the evaluator waits for the thread, which still has output to copy, with
\* every write end closed
C15_Witness ==
    /\ CsAt("join")
    /\ cs.thread = "copying"
    /\ cs.pipe # <<>>
    /\ cs.leaked = 0
    /\ cs.rc = 0

(***************************************************************************)
(* Word evaluation.  A string is a sequence of characters; a Fields value   *)
(* is its variant and the strings it holds.                                *)
(***************************************************************************)
Zero == [variant |-> "Zero", v |-> <<>>]
Single(s) == [variant |-> "Single", v |-> <<s>>]
At(v) == [variant |-> "At", v |-> v]
Star(v) == [variant |-> "Star", v |-> v]
Split(v) == [variant |-> "Split", v |-> v]

\* Fields::into_iter: the strings a Fields value holds, in order
into_iter(f) == f.v

\* From<Vec<T>> for Fields: an empty Vec is Zero, one element is Single
FromVec(v) ==
    IF Len(v) = 0 THEN Zero
    ELSE IF Len(v) = 1 THEN Single(v[1])
    ELSE Split(v)

Some(x) == [some |-> x]

\* char::is_whitespace, over the characters of the model
is_whitespace(c) == c \in {" ", "\t", "\n"}

IFS_DEFAULT == <<" ", "\t", "\n">>

\* String::contains(char)
contains(s, c) == \E i \in 1..Len(s) : s[i] = c

RECURSIVE SkipLeading(_, _, _, _)
RECURSIVE TakeField(_, _, _, _, _)
RECURSIVE SkipAdjacent(_, _, _, _)

\* a delimiter never makes an empty field
SkipLeading_NoEmptyFields(word, ifs, i, fields) ==
    IF i > Len(word) THEN fields
    ELSE IF contains(ifs, word[i])
         THEN SkipLeading(word, ifs, i + 1, fields)
    ELSE TakeField(word, ifs, i, i + 1, fields)

\* split_fields_internal, the first inner loop: IFS whitespace is skipped, any
\* other IFS character here is an empty field, anything else starts a field
SkipLeading(word, ifs, i, fields) ==
    IF i > Len(word) THEN fields
    ELSE IF is_whitespace(word[i]) /\ contains(ifs, word[i])
         THEN SkipLeading(word, ifs, i + 1, fields)
    ELSE IF contains(ifs, word[i])
         THEN SkipLeading(word, ifs, i + 1, Append(fields, <<>>))
    ELSE TakeField(word, ifs, i, i + 1, fields)

\* the second inner loop: the field runs up to the next IFS character
TakeField(word, ifs, start, j, fields) ==
    IF j > Len(word)
    THEN Append(fields, SubSeq(word, start, Len(word)))
    ELSE IF contains(ifs, word[j])
         THEN SkipAdjacent(word, ifs, j + 1,
                           Append(fields, SubSeq(word, start, j - 1)))
    ELSE TakeField(word, ifs, start, j + 1, fields)

\* the third inner loop: IFS whitespace next to the delimiter is skipped
SkipAdjacent(word, ifs, j, fields) ==
    IF j <= Len(word) /\ is_whitespace(word[j]) /\ contains(ifs, word[j])
    THEN SkipAdjacent(word, ifs, j + 1, fields)
    ELSE SkipLeading(word, ifs, j, fields)

RECURSIVE SplitWords(_, _, _)
\* the 'word loop: empty words are skipped
SplitWords(words, ifs, fields) ==
    IF words = <<>> THEN fields
    ELSE SplitWords(Tail(words), ifs,
                    IF Head(words) = <<>> THEN fields
                    ELSE SkipLeading(Head(words), ifs, 1, fields))

\* env.var("IFS"), IFS_DEFAULT when it is unset
IfsOf(ifs) == IF ifs = None THEN IFS_DEFAULT ELSE ifs.some

split_fields_internal(words, ifs) ==
    IF IfsOf(ifs) = <<>> THEN words
    ELSE SplitWords(words, IfsOf(ifs), <<>>)

split_fields(fields, ifs) ==
    IF fields.variant = "Zero" THEN Zero
    ELSE IF fields.variant = "Single"
         THEN FromVec(split_fields_internal(fields.v, ifs))
    ELSE [fields EXCEPT !.v = split_fields_internal(fields.v, ifs)]

\* The characters of the strings that are split, and the strings themselves.
Chars == {"a", " ", ":"}
Strings(n) == UNION {[1..k -> Chars] : k \in 0..n}

\* The values of IFS: unset, empty, whitespace, a delimiter, both.
IfsValues ==
    {None, Some(<<>>), Some(<<" ">>), Some(<<":">>), Some(<<" ", ":">>)}

\* The Fields values that are split.
\* "   foo000bar   " with IFS "0 ", over the characters of the model
CustomIfsValue == <<" ", " ", "a", "a", ":", ":", ":", "a", " ", " ">>

SplitInputs ==
    {Zero, Single(CustomIfsValue)}
    \cup {Single(s) : s \in Strings(MaxLen)}
    \cup {[variant |-> t, v |-> v] :
            t \in {"At", "Star", "Split"},
            v \in UNION {[1..k -> Strings(MaxLen - 1)] : k \in 0..2}}

InitSplit ==
    /\ \E f \in SplitInputs, i \in IfsValues :
         split = [fields |-> f, ifs |-> i, once |-> None, twice |-> None]
    /\ dq = None
    /\ concat = None
    /\ IdlePipeline
    /\ IdleEnv
    /\ IdleLoop
    /\ IdleSubshell
    /\ IdleParamSubst
    /\ IdleRestorer
    /\ IdleCalls
    /\ IdleCmdSubst
    /\ IdleEval
    /\ IdleRead

\* The Fields value is split.
SplitFields ==
    /\ split # None
    /\ split.once = None
    /\ split' = [split EXCEPT !.once = Some(split_fields(split.fields, split.ifs))]
    /\ UNCHANGED <<dq, concat>>
    /\ UNCHANGED notWordVars

\* What splitting returned is split again, IFS being the same.
SplitAgain ==
    /\ split # None
    /\ split.once # None
    /\ split.twice = None
    /\ split' = [split EXCEPT !.twice = Some(split_fields(split.once.some, split.ifs))]
    /\ UNCHANGED <<dq, concat>>
    /\ UNCHANGED notWordVars

\* Where a field starts in a word: a character outside IFS that follows the
\* start of the word or an IFS character.  Where an empty field is: a
\* delimiter that is not whitespace, with no field character right before it.
FieldStarts(w, ifs) ==
    {i \in 1..Len(w) : ~contains(ifs, w[i]) /\ (i = 1 \/ contains(ifs, w[i - 1]))}
EmptyFieldAt(w, ifs) ==
    {i \in 1..Len(w) : /\ contains(ifs, w[i])
                       /\ ~is_whitespace(w[i])
                       /\ (i = 1 \/ contains(ifs, w[i - 1]))}

\* The run of characters outside IFS that starts at i.
RunFrom(w, ifs, i) ==
    LET ends == {j \in i..Len(w) : \A k \in i..j : ~contains(ifs, w[k])}
    IN  SubSeq(w, i, CHOOSE j \in ends : \A k \in ends : k <= j)

RECURSIVE FieldsInOrder(_, _, _)
\* The fields of a word by position: the runs and the empty fields.
FieldsInOrder(w, ifs, places) ==
    IF places = {} THEN <<>>
    ELSE LET i == CHOOSE i \in places : \A j \in places : i <= j
         IN  <<IF contains(ifs, w[i]) THEN <<>> ELSE RunFrom(w, ifs, i)>>
             \o FieldsInOrder(w, ifs, places \ {i})

RECURSIVE FieldsOfWords(_, _)
FieldsOfWords(ws, ifs) ==
    IF ws = <<>> THEN <<>>
    ELSE FieldsInOrder(Head(ws), ifs,
                       FieldStarts(Head(ws), ifs) \cup EmptyFieldAt(Head(ws), ifs))
         \o FieldsOfWords(Tail(ws), ifs)

C20_SplitFieldsIdempotent ==
    (split # None /\ split.twice # None) =>
        into_iter(split.twice.some) = into_iter(split.once.some)

\* The positional args of the shell: the first n of these.
ArgList == <<<<"1">>, <<"2">>, <<"3">>, <<"4">>, <<"5">>>>
ArgsEnvs == {SubSeq(ArgList, 1, n) : n \in 0..MaxArgs}

\* The simple words a quoted or concatenated word is made of.
Literal(s) == [word |-> "Literal", s |-> s]
Tilde == [word |-> "Tilde", s |-> <<>>]
ParamAt == [word |-> "Param", s |-> <<"@">>]
ParamStar == [word |-> "Param", s |-> <<"*">>]
SimpleWords ==
    {Literal(<<"x">>), Literal(<<"y">>), Tilde, ParamAt, ParamStar}
WordLists == UNION {[1..n -> SimpleWords] : n \in 1..MaxParts}

TildeExpansions == {"None", "First", "All"}
WordEvalConfig(t, s) == [tilde_expansion |-> t, split_fields_further |-> s]

\* Parameter::eval for $@ and $*: Zero without args; split further on demand
ParameterEval(p, split_fields_further, e) ==
    LET f == IF e.args = <<>> THEN Zero
             ELSE IF p = <<"@">> THEN At(e.args)
             ELSE Star(e.args)
    IN  IF split_fields_further THEN split_fields(f, e.ifs) ELSE f

\* SimpleWord::eval_with_config
SimpleWordEval(w, e, cfg) ==
    IF w.word = "Literal" THEN Single(w.s)
    ELSE IF w.word = "Tilde"
         THEN IF cfg.tilde_expansion = "None" THEN Single(<<"~">>)
              ELSE IF e.home = None THEN Zero ELSE Single(e.home.some)
    ELSE ParameterEval(w.s, cfg.split_fields_further, e)

RECURSIVE JoinWith(_, _)
JoinWith(v, sep) ==
    IF v = <<>> THEN <<>>
    ELSE IF Len(v) = 1 THEN v[1]
    ELSE v[1] \o sep \o JoinWith(Tail(v), sep)

\* Fields::join_with_ifs: the first character of IFS, a space when it is unset
join_with_ifs(f, e) ==
    JoinWith(f.v, IF e.ifs = None THEN <<" ">>
                  ELSE IF e.ifs.some = <<>> THEN <<>>
                  ELSE <<e.ifs.some[1]>>)

\* mutant: the part replaces what cur_field holds
append_to_cur_field_Replaces(cur_field, s) == Some(s)

\* append_to_cur_field!
append_to_cur_field(cur_field, s) ==
    IF cur_field = None THEN Some(s) ELSE Some(cur_field.some \o s)

\* cur_field.take().map(|s| fields.push(s))
PushCur(fields, cur_field) ==
    IF cur_field = None THEN fields ELSE Append(fields, cur_field.some)

\* The environments a word is evaluated in.
WordEnvs ==
    {[args |-> a, ifs |-> None, home |-> h] :
        a \in ArgsEnvs, h \in {None, Some(<<"h">>)}}

InitDoubleQuoted ==
    /\ \E v \in WordLists \cup {<<>>}, e \in WordEnvs :
         dq = [v |-> v, env |-> e, pos |-> 1, fields |-> <<>>,
               cur_field |-> None, result |-> None]
    /\ concat = None
    /\ split = None
    /\ IdlePipeline
    /\ IdleEnv
    /\ IdleLoop
    /\ IdleSubshell
    /\ IdleParamSubst
    /\ IdleRestorer
    /\ IdleCalls
    /\ IdleCmdSubst
    /\ IdleEval
    /\ IdleRead

\* What the next part of the double quoted word evaluates to: no tilde
\* expansion, no further splitting.
DqPart ==
    SimpleWordEval(dq.v[dq.pos], dq.env, WordEvalConfig("None", FALSE))

DqAtPart(variants) ==
    /\ dq # None
    /\ dq.result = None
    /\ dq.pos <= Len(dq.v)
    /\ DqPart.variant \in variants

\* Fields::Zero => continue
DqZero ==
    /\ DqAtPart({"Zero"})
    /\ dq' = [dq EXCEPT !.pos = @ + 1]
    /\ UNCHANGED <<concat, split>>
    /\ UNCHANGED notWordVars

\* Fields::Single(s) => append_to_cur_field!(s)
DqSingle ==
    /\ DqAtPart({"Single"})
    /\ dq' = [dq EXCEPT !.pos = @ + 1,
                        !.cur_field = append_to_cur_field(@, DqPart.v[1])]
    /\ UNCHANGED <<concat, split>>
    /\ UNCHANGED notWordVars

\* Fields::Split | Fields::Star => append_to_cur_field!(f.join_with_ifs(env))
DqJoin ==
    /\ DqAtPart({"Split", "Star"})
    /\ dq' = [dq EXCEPT !.pos = @ + 1,
                        !.cur_field =
                            append_to_cur_field(@, join_with_ifs(DqPart, dq.env))]
    /\ UNCHANGED <<concat, split>>
    /\ UNCHANGED notWordVars

\* Fields::At(v): the first field goes to cur_field, which is pushed; the
\* fields after it are pushed but for the last, which is the new cur_field
DqAt ==
    /\ DqAtPart({"At"})
    /\ LET v == DqPart.v
           n == Len(v)
       IN  dq' =
             IF n = 0 THEN [dq EXCEPT !.pos = @ + 1]
             ELSE [dq EXCEPT
                     !.pos = @ + 1,
                     !.fields = PushCur(@, append_to_cur_field(dq.cur_field, v[1]))
                                \o SubSeq(v, 2, n - 1),
                     !.cur_field = IF n >= 2 THEN Some(v[n]) ELSE None]
    /\ UNCHANGED <<concat, split>>
    /\ UNCHANGED notWordVars

\* cur_field.map(|s| fields.push(s)); fields.into()
DqDone ==
    /\ dq # None
    /\ dq.result = None
    /\ dq.pos > Len(dq.v)
    /\ dq' = [dq EXCEPT !.result = Some(FromVec(PushCur(dq.fields, dq.cur_field)))]
    /\ UNCHANGED <<concat, split>>
    /\ UNCHANGED notWordVars

\* The text of a part that is not `$@`, inside double quotes.
RECURSIVE TextOf(_, _)
TextOf(v, e) ==
    IF v = <<>> THEN <<>>
    ELSE LET f == SimpleWordEval(Head(v), e, WordEvalConfig("None", FALSE))
         IN  (IF f.variant = "Zero" THEN <<>>
              ELSE IF f.variant = "Single" THEN f.v[1]
              ELSE join_with_ifs(f, e))
             \o TextOf(Tail(v), e)

\* The places of `$@` in a word.
AtPlaces(v) == {i \in 1..Len(v) : v[i] = ParamAt}

\* The fields "before$@after" stands for when there are args: the text before
\* joined to the first arg, the middle args, the last arg joined to the text
\* after.
QuotedAtFields(before, args, after) ==
    IF Len(args) = 1 THEN <<before \o args[1] \o after>>
    ELSE <<before \o args[1]>> \o SubSeq(args, 2, Len(args) - 1)
         \o <<args[Len(args)] \o after>>

\* C18: inside double quotes a word with `$@` and n >= 1 args yields exactly n
\* fields: the text before joined to the first arg, each middle arg, the last
\* arg joined to the text after.
C18_QuotedAtYieldsOneFieldPerArg ==
    (/\ dq # None
     /\ dq.result # None
     /\ Cardinality(AtPlaces(dq.v)) = 1
     /\ dq.env.args # <<>>) =>
        LET i == CHOOSE i \in AtPlaces(dq.v) : TRUE IN
        /\ Len(into_iter(dq.result.some)) = Len(dq.env.args)
        /\ into_iter(dq.result.some) =
             QuotedAtFields(TextOf(SubSeq(dq.v, 1, i - 1), dq.env),
                            dq.env.args,
                            TextOf(SubSeq(dq.v, i + 1, Len(dq.v)), dq.env))

\* Every part of the word evaluates to Zero inside double quotes.
AllPartsZero(v, e) ==
    \A i \in 1..Len(v) :
        SimpleWordEval(v[i], e, WordEvalConfig("None", FALSE)) = Zero

\* C35 (as stated): a double quoted word without `$@` evaluates to exactly
\* one field, the concatenation of what its parts expand to, also when every
\* part expands to nothing.
C35_QuotedWordIsOneField ==
    (dq # None /\ dq.result # None /\ AtPlaces(dq.v) = {}) =>
        dq.result.some = Single(TextOf(dq.v, dq.env))

\* C35 (amended): a double quoted word without `$@` evaluates to exactly one
\* field, the concatenation of what its parts expand to, when some part
\* expands to a field (an empty one included); when every part expands to no
\* field at all, or there is no part, it evaluates to no field (Zero).
C35_QuotedWordIsOneFieldOrZero ==
    (dq # None /\ dq.result # None /\ AtPlaces(dq.v) = {}) =>
        dq.result.some = IF AllPartsZero(dq.v, dq.env) THEN Zero
                         ELSE Single(TextOf(dq.v, dq.env))

\* "x$*~" with two or more args has given one field.
C35_Witness ==
    /\ dq # None
    /\ dq.result # None
    /\ dq.v = <<Literal(<<"x">>), ParamStar, Tilde>>
    /\ Len(dq.env.args) >= 2
    /\ dq.result.some.variant = "Single"
    /\ Len(dq.result.some.v[1]) >= 5

\* The config ComplexWord::Concat hands to each of its parts.
ConcatCfg(cfg) == WordEvalConfig("None", cfg.split_fields_further)

InitConcat ==
    /\ \E v \in WordLists, e \in WordEnvs, t \in TildeExpansions, s \in BOOLEAN :
         concat = [v |-> v, env |-> e, cfg |-> WordEvalConfig(t, s), pos |-> 1,
                   fields |-> <<>>, seen |-> <<>>, result |-> None]
    /\ dq = None
    /\ split = None
    /\ IdlePipeline
    /\ IdleEnv
    /\ IdleLoop
    /\ IdleSubshell
    /\ IdleParamSubst
    /\ IdleRestorer
    /\ IdleCalls
    /\ IdleCmdSubst
    /\ IdleEval
    /\ IdleRead

\* The fields the next part of the concatenation evaluates to.
ConcatPart ==
    into_iter(SimpleWordEval(concat.v[concat.pos], concat.env,
                             ConcatCfg(concat.cfg)))

\* One part is evaluated; `popped` and `nexted` tell whether fields.pop() and
\* iter.next() gave a value.  The config the part got is kept in `seen`.
ConcatStep(popped, nexted) ==
    /\ concat # None
    /\ concat.result = None
    /\ concat.pos <= Len(concat.v)
    /\ popped = (concat.fields # <<>>)
    /\ nexted = (ConcatPart # <<>>)
    /\ LET fs == concat.fields
           it == ConcatPart
           merged ==
             IF popped /\ nexted
             THEN SubSeq(fs, 1, Len(fs) - 1) \o <<fs[Len(fs)] \o it[1]>>
                  \o Tail(it)
             ELSE IF popped THEN fs
             ELSE IF nexted THEN it
             ELSE fs
       IN  concat' = [concat EXCEPT !.pos = @ + 1,
                                    !.fields = merged,
                                    !.seen = Append(@, ConcatCfg(concat.cfg))]
    /\ UNCHANGED <<dq, split>>
    /\ UNCHANGED notWordVars

\* (Some(last), Some(next)): the two are joined into one field
ConcatJoin == ConcatStep(TRUE, TRUE)

\* (Some(last), None): last is put back
ConcatPutBack == ConcatStep(TRUE, FALSE)

\* (None, Some(next))
ConcatFirst == ConcatStep(FALSE, TRUE)

\* (None, None) => continue
ConcatSkip == ConcatStep(FALSE, FALSE)

\* fields.into()
ConcatDone ==
    /\ concat # None
    /\ concat.result = None
    /\ concat.pos > Len(concat.v)
    /\ concat' = [concat EXCEPT !.result = Some(FromVec(concat.fields))]
    /\ UNCHANGED <<dq, split>>
    /\ UNCHANGED notWordVars

\* C19: the first part of a Concat is evaluated with the caller's
\* tilde_expansion and every later part with None; the caller's
\* split_fields_further goes to all parts unchanged.
C19_FirstPartSeesCallersTildeExpansion ==
    concat # None =>
        \A i \in 1..Len(concat.seen) :
            concat.seen[i] =
                WordEvalConfig(IF i = 1 THEN concat.cfg.tilde_expansion
                               ELSE "None",
                               concat.cfg.split_fields_further)

NextWord ==
    \/ SplitFields
    \/ SplitAgain
    \/ DqZero
    \/ DqSingle
    \/ DqJoin
    \/ DqAt
    \/ DqDone
    \/ ConcatJoin
    \/ ConcatPutBack
    \/ ConcatFirst
    \/ ConcatSkip
    \/ ConcatDone

InitWord == InitSplit \/ InitDoubleQuoted \/ InitConcat

SpecWord == InitWord /\ [][NextWord]_vars

(***************************************************************************)
(* Parameters, parameter substitutions and arithmetic: one evaluation at a *)
(* time, in an environment of variables, args and a last status.           *)
(***************************************************************************)
EXIT_SIGNAL_OFFSET == 128

\* A u32 is kept in two 16 bit limbs.
Limb == 2 ^ 16

\* `c as u32`, c an i32
as_u32(c) == [hi |-> (c \div Limb) % Limb, lo |-> c % Limb]

\* u32 + u32, no overflow
u32_add(u, n) ==
    [hi |-> u.hi + ((u.lo + n) \div Limb), lo |-> (u.lo + n) % Limb]

DigitChars == <<"0", "1", "2", "3", "4", "5", "6", "7", "8", "9">>

RECURSIVE u32_to_string(_)
\* u32::to_string: the decimal digits, by division of the two limbs by ten
u32_to_string(u) ==
    LET t == (u.hi % 10) * Limb + u.lo
        q == [hi |-> u.hi \div 10, lo |-> t \div 10]
    IN  (IF q.hi = 0 /\ q.lo = 0 THEN <<>> ELSE u32_to_string(q))
        \o <<DigitChars[(t % 10) + 1]>>

\* the status is printed as it is, with its sign
StatusNumber_Signed(status) ==
    IF status.n < 0 THEN [neg |-> TRUE, u |-> as_u32(-status.n)]
    ELSE [neg |-> FALSE, u |-> as_u32(status.n)]

\* Parameter::Question: `c as u32` for a code, `c as u32 + EXIT_SIGNAL_OFFSET`
\* for a signal
StatusNumber(status) ==
    [neg |-> FALSE,
     u |-> IF status.t = "Code" THEN as_u32(status.n)
           ELSE u32_add(as_u32(status.n), EXIT_SIGNAL_OFFSET)]

NumberString(x) == (IF x.neg THEN <<"-">> ELSE <<>>) \o u32_to_string(x.u)

\* The parameters.
Param(kind) == [param |-> kind, name |-> "", n |-> 0]
VarParam(name) == [param |-> "Var", name |-> name, n |-> 0]
Positional(n) == [param |-> "Positional", name |-> "", n |-> n]

\* ret.map(|f| if split_fields_further { split_fields(f, env) } else { f })
SplitFurther(ret, split_fields_further, e) ==
    IF ret # None /\ split_fields_further
    THEN Some(split_fields(ret.some, e.ifs))
    ELSE ret

\* Parameter::eval
Parameter_eval(p, split_fields_further, e) ==
    SplitFurther(
        IF p.param = "At"
            THEN Some(IF e.args = <<>> THEN Zero ELSE At(e.args))
        ELSE IF p.param = "Star"
            THEN Some(IF e.args = <<>> THEN Zero ELSE Star(e.args))
        ELSE IF p.param = "Question"
            THEN Some(Single(NumberString(StatusNumber(e.last_status))))
        ELSE IF p.param = "Positional"
            THEN IF p.n <= Len(e.args) THEN Some(Single(e.args[p.n])) ELSE None
        ELSE IF p.param = "Var"
            THEN IF e.vars[p.name] = None THEN None
                 ELSE Some(Single(e.vars[p.name].some))
        ELSE None,
        split_fields_further, e)

\* The variables of the environment, and an environment.
VarNames == {"x", "y"}
NoVars == [n \in VarNames |-> None]
Env(args, ifs, vs, status) ==
    [args |-> args, ifs |-> ifs, vars |-> vs, last_status |-> status]

\* The args `$@` and `$*` are evaluated with; the last statuses of `$?`.
AtArgs == {<<>>, <<<<>>>>, <<<<>>, <<>>>>, <<<<" ">>>>, <<<<"a">>>>, <<<<"a">>, <<>>>>}
LastStatuses ==
    {Code(c) : c \in {0, 1, MaxCode, -1, -MaxCode}}
    \cup {Signal(s) : s \in {1, MaxCode}}

InitParameter ==
    /\ \/ \E p \in {Param("At"), Param("Star")}, a \in AtArgs, s \in BOOLEAN,
            i \in {None, Some(<<>>), Some(<<":">>)} :
            ev = [op |-> "Parameter", p |-> p, split |-> s,
                  env |-> Env(a, i, NoVars, EXIT_SUCCESS),
                  done |-> FALSE, result |-> None]
       \/ \E st \in LastStatuses, s \in BOOLEAN :
            ev = [op |-> "Parameter", p |-> Param("Question"), split |-> s,
                  env |-> Env(<<>>, None, NoVars, st),
                  done |-> FALSE, result |-> None]
    /\ IdlePipeline
    /\ IdleEnv
    /\ IdleLoop
    /\ IdleSubshell
    /\ IdleParamSubst
    /\ IdleRestorer
    /\ IdleCalls
    /\ IdleCmdSubst
    /\ IdleWord
    /\ IdleRead

EvAt(op) ==
    /\ ev # None
    /\ ev.op = op
    /\ ~ev.done

\* The parameter is evaluated.
ParameterEvalDone ==
    /\ EvAt("Parameter")
    /\ ev' = [ev EXCEPT !.done = TRUE,
                        !.result = Parameter_eval(ev.p, ev.split, ev.env)]
    /\ UNCHANGED notEvalVars

EvDone(op) ==
    /\ ev # None
    /\ ev.op = op
    /\ ev.done

\* Fields::is_null: every string is empty, and the value is not Zero
is_null(f) ==
    /\ f.variant # "Zero"
    /\ \A i \in 1..Len(f.v) : f.v[i] = <<>>

\* Fields::join: the strings, a space between them
join(f) == JoinWith(f.v, <<" ">>)

\* nothing is changed
set_last_status_Noop(e, status) == e

\* env.set_last_status
set_last_status(e, status) == [e EXCEPT !.last_status = status]

\* the variable keeps what it had
set_var_Noop(e, name, value) == e

\* env.set_var
set_var(e, name, value) == [e EXCEPT !.vars[name] = Some(value)]

\* a null value is passed on as it is
check_param_subst_KeepsNull(p, e, strict) ==
    LET r == Parameter_eval(p, FALSE, e) IN
    IF r # None /\ (~is_null(r.some) \/ ~strict) THEN r ELSE None

\* check_param_subst!: what the substitution returns at once, if anything: the
\* fields of the parameter when they are not null, Zero when they are null
\* and the form is not strict
check_param_subst(p, e, strict) ==
    LET r == Parameter_eval(p, FALSE, e) IN
    IF r # None /\ ~is_null(r.some) THEN r
    ELSE IF r # None /\ ~strict THEN Some(Zero)
    ELSE None

\* Ok(match ret { Fields::Single(ref s) if s.is_empty() => EMPTY_FIELD, .. })
EmptyIsZero(f) == IF f = Single(<<>>) THEN Zero ELSE f

\* Some(ref w) => w.eval_with_config(env, cfg), None => EMPTY_FIELD
WordOrEmpty(word) == IF word = None THEN Zero ELSE word.some

\* What an evaluation leaves: its result, the environment, and whether the
\* word was evaluated.
Outcome(r, e, w) == [result |-> r, env |-> e, word_evaluated |-> w]

ExpansionError(kind, p) == [kind |-> kind, p |-> p]

\* ParameterSubstitution::eval_inner: Default
eval_inner_Default(strict, p, word, e) ==
    IF check_param_subst(p, e, strict) # None
    THEN Outcome(Ok(EmptyIsZero(check_param_subst(p, e, strict).some)), e, FALSE)
    ELSE Outcome(Ok(EmptyIsZero(WordOrEmpty(word))), e, word # None)

\* ParameterSubstitution::eval_inner: Assign
eval_inner_Assign(strict, p, word, e) ==
    IF check_param_subst(p, e, strict) # None
    THEN Outcome(Ok(EmptyIsZero(check_param_subst(p, e, strict).some)), e, FALSE)
    ELSE IF p.param # "Var"
    THEN Outcome(Err(ExpansionError("BadAssig", p)),
                 set_last_status(e, EXIT_ERROR), FALSE)
    ELSE Outcome(Ok(EmptyIsZero(WordOrEmpty(word))),
                 set_var(e, p.name, join(WordOrEmpty(word))), word # None)

\* ParameterSubstitution::eval_inner: Error
eval_inner_Error(strict, p, word, e) ==
    IF check_param_subst(p, e, strict) # None
    THEN Outcome(Ok(EmptyIsZero(check_param_subst(p, e, strict).some)), e, FALSE)
    ELSE Outcome(Err(ExpansionError("EmptyParameter", p)),
                 set_last_status(e, EXIT_ERROR), word # None)

\* The parameters of a substitution, the values of its variable, its args,
\* and what its word evaluates to.
SubstParams == {VarParam("x"), Param("At"), Positional(1), Param("Bang")}
SubstValues == {None, Some(<<>>), Some(<<"a">>)}
SubstArgs == {<<>>, <<<<>>>>, <<<<"a">>>>, <<<<"a">>, <<>>>>}
SubstWords ==
    {None, Some(Zero), Some(Single(<<>>)), Some(Single(<<"d">>)),
     Some(Split(<<<<"d">>, <<"e">>>>))}

InitSubst ==
    /\ \E f \in {"Default", "Assign", "Error"}, strict \in BOOLEAN,
          p \in SubstParams, x \in SubstValues, a \in SubstArgs, w \in SubstWords,
          st \in {EXIT_SUCCESS, EXIT_ERROR} :
         ev = [op |-> f, strict |-> strict, p |-> p, word |-> w,
               env |-> Env(a, None, [NoVars EXCEPT !["x"] = x], st),
               done |-> FALSE, out |-> None]
    /\ IdlePipeline
    /\ IdleEnv
    /\ IdleLoop
    /\ IdleSubshell
    /\ IdleParamSubst
    /\ IdleRestorer
    /\ IdleCalls
    /\ IdleCmdSubst
    /\ IdleWord
    /\ IdleRead

SubstDefault ==
    /\ EvAt("Default")
    /\ ev' = [ev EXCEPT !.done = TRUE,
                        !.out = eval_inner_Default(ev.strict, ev.p, ev.word, ev.env)]
    /\ UNCHANGED notEvalVars

SubstAssign ==
    /\ EvAt("Assign")
    /\ ev' = [ev EXCEPT !.done = TRUE,
                        !.out = eval_inner_Assign(ev.strict, ev.p, ev.word, ev.env)]
    /\ UNCHANGED notEvalVars

SubstError ==
    /\ EvAt("Error")
    /\ ev' = [ev EXCEPT !.done = TRUE,
                        !.out = eval_inner_Error(ev.strict, ev.p, ev.word, ev.env)]
    /\ UNCHANGED notEvalVars

\* The fields of the parameter of the substitution, and whether it is present:
\* set, and not null when the form is strict.
SubstParam == Parameter_eval(ev.p, FALSE, ev.env)
SubstPresent == SubstParam # None /\ (~ev.strict \/ ~is_null(SubstParam.some))

IntToString(n) ==
    IF n < 0 THEN <<"-">> \o u32_to_string(as_u32(-n)) ELSE u32_to_string(as_u32(n))

DigitValue(c) == (CHOOSE d \in 1..10 : DigitChars[d] = c) - 1
IsDigit(c) == \E d \in 1..10 : DigitChars[d] = c

RECURSIVE DigitsValue(_)
DigitsValue(s) ==
    IF s = <<>> THEN 0
    ELSE 10 * DigitsValue(SubSeq(s, 1, Len(s) - 1)) + DigitValue(s[Len(s)])

\* str::parse::<isize>: a sign, then digits, at least one; None otherwise
Parse(s) ==
    LET digits == IF s # <<>> /\ s[1] \in {"-", "+"} THEN Tail(s) ELSE s IN
    IF digits = <<>> \/ \E i \in 1..Len(digits) : ~IsDigit(digits[i]) THEN None
    ELSE Some(IF s[1] = "-" THEN -DigitsValue(digits) ELSE DigitsValue(digits))

\* get_var: env.var(var).and_then(|s| s.parse().ok()).unwrap_or(0)
get_var(e, var) ==
    IF e.vars[var] = None \/ Parse(e.vars[var].some) = None THEN 0
    ELSE Parse(e.vars[var].some).some

\* The arithmetic expressions.
Lit(n) == [a |-> "Literal", n |-> n]
OnVar(a, var) == [a |-> a, var |-> var]
Assig(var, value) == [a |-> "Assign", var |-> var, value |-> value]
Unary(a, expr) == [a |-> a, expr |-> expr]
Binary(a, left, right) == [a |-> a, left |-> left, right |-> right]

UnaryOps == {"UnaryPlus", "UnaryMinus", "BitwiseNot", "LogicalNot"}
RightFirstOps == {"Pow", "Div", "Modulo"}
LeftFirstOps == {"Mult", "Add", "Sub", "Less", "Eq"}
LogicalOps == {"LogicalAnd", "LogicalOr"}

\* isize / isize and isize % isize: the quotient is cut towards zero
Abs(n) == IF n < 0 THEN -n ELSE n
TruncDiv(a, b) ==
    IF (a < 0) = (b < 0) THEN Abs(a) \div Abs(b) ELSE -(Abs(a) \div Abs(b))

RECURSIVE IntPow(_, _)
IntPow(a, n) == IF n = 0 THEN 1 ELSE a * IntPow(a, n - 1)

\* the operand is negated
XorAllOnes_Negate(x) == 0 - x

\* x ^ !0 over two's complement, in 16 bits
XorAllOnes(x) ==
    LET u == (Limb - 1) - (x % Limb) IN
    IF u >= Limb \div 2 THEN u - Limb ELSE u

Apply(op, a, b) ==
    IF op = "Mult" THEN a * b
    ELSE IF op = "Add" THEN a + b
    ELSE IF op = "Sub" THEN a - b
    ELSE IF op = "Less" THEN (IF a < b THEN 1 ELSE 0)
    ELSE IF op = "Eq" THEN (IF a = b THEN 1 ELSE 0)
    ELSE IF op = "Div" THEN TruncDiv(a, b)
    ELSE IF op = "Modulo" THEN a - b * TruncDiv(a, b)
    ELSE IntPow(a, b)

\* What an arithmetic evaluation leaves: Ok(value) or Err(error), the
\* environment, and the order its two operands were evaluated in.
Arith(r, e, order) == [r |-> r, env |-> e, order |-> order]

RECURSIVE Arithmetic_eval(_, _)
\* Arithmetic::eval
Arithmetic_eval(x, e) ==
    IF x.a = "Literal" THEN Arith(Ok(x.n), e, <<>>)
    ELSE IF x.a = "Var" THEN Arith(Ok(get_var(e, x.var)), e, <<>>)
    ELSE IF x.a = "PostDecr"
        THEN Arith(Ok(get_var(e, x.var)),
                   set_var(e, x.var, IntToString(get_var(e, x.var) - 1)), <<>>)
    ELSE IF x.a = "PreIncr"
        THEN Arith(Ok(get_var(e, x.var) + 1),
                   set_var(e, x.var, IntToString(get_var(e, x.var) + 1)), <<>>)
    ELSE IF x.a = "Assign"
        THEN LET v == Arithmetic_eval(x.value, e) IN
             IF ~v.r.ok THEN Arith(v.r, v.env, <<>>)
             ELSE Arith(v.r, set_var(v.env, x.var, IntToString(v.r.v)), <<>>)
    ELSE IF x.a \in UnaryOps
        THEN LET v == Arithmetic_eval(x.expr, e) IN
             IF ~v.r.ok THEN Arith(v.r, v.env, <<>>)
             ELSE Arith(Ok(IF x.a = "UnaryPlus" THEN Abs(v.r.v)
                           ELSE IF x.a = "UnaryMinus" THEN -v.r.v
                           ELSE IF x.a = "BitwiseNot" THEN XorAllOnes(v.r.v)
                           ELSE IF v.r.v = 0 THEN 1 ELSE 0),
                        v.env, <<>>)
    ELSE IF x.a \in RightFirstOps
        THEN LET r == Arithmetic_eval(x.right, e) IN
             IF ~r.r.ok THEN Arith(r.r, r.env, <<"right">>)
             ELSE IF x.a = "Pow" /\ r.r.v < 0
                 THEN Arith(Err(ExpansionError("NegativeExponent", None)),
                            set_last_status(r.env, EXIT_ERROR), <<"right">>)
             ELSE IF x.a # "Pow" /\ r.r.v = 0
                 THEN Arith(Err(ExpansionError("DivideByZero", None)),
                            set_last_status(r.env, EXIT_ERROR), <<"right">>)
             ELSE LET l == Arithmetic_eval(x.left, r.env) IN
                  IF ~l.r.ok THEN Arith(l.r, l.env, <<"right", "left">>)
                  ELSE Arith(Ok(Apply(x.a, l.r.v, r.r.v)), l.env,
                             <<"right", "left">>)
    ELSE IF x.a \in LeftFirstOps
        THEN LET l == Arithmetic_eval(x.left, e) IN
             IF ~l.r.ok THEN Arith(l.r, l.env, <<"left">>)
             ELSE LET r == Arithmetic_eval(x.right, l.env) IN
                  IF ~r.r.ok THEN Arith(r.r, r.env, <<"left", "right">>)
                  ELSE Arith(Ok(Apply(x.a, l.r.v, r.r.v)), r.env,
                             <<"left", "right">>)
    ELSE LET l == Arithmetic_eval(x.left, e) IN
         IF ~l.r.ok THEN Arith(l.r, l.env, <<"left">>)
         ELSE IF (x.a = "LogicalAnd") = (l.r.v = 0)
             THEN Arith(Ok(IF x.a = "LogicalAnd" THEN 0 ELSE 1), l.env, <<"left">>)
         ELSE LET r == Arithmetic_eval(x.right, l.env) IN
              IF ~r.r.ok THEN Arith(r.r, r.env, <<"left", "right">>)
              ELSE Arith(Ok(IF r.r.v # 0 THEN 1 ELSE 0), r.env,
                         <<"left", "right">>)

\* The expressions that are evaluated: operands, and one operator over them.
ArithLeaves ==
    {Lit(-1), Lit(0), Lit(2), OnVar("Var", "x"), OnVar("PreIncr", "x"),
     OnVar("PostDecr", "x"), Assig("x", Lit(2))}
ArithOperands ==
    ArithLeaves
    \cup {Unary(a, x) : a \in {"UnaryPlus", "UnaryMinus"},
                        x \in {Lit(-1), OnVar("Var", "x")}}
    \cup {Binary("Div", Lit(2), Lit(0)), Binary("Pow", Lit(2), Lit(-1))}
ArithExprs ==
    {Unary(a, x) : a \in UnaryOps, x \in ArithLeaves}
    \cup {Binary(a, l, r) : a \in RightFirstOps \cup LeftFirstOps \cup LogicalOps,
                            l \in ArithOperands, r \in ArithOperands}

\* The values of the variable of the expressions.
ArithValues == {None, Some(<<"-", "1">>), Some(<<"2">>), Some(<<"a">>)}

InitArith ==
    /\ \E x \in ArithExprs, v \in ArithValues, st \in {EXIT_SUCCESS, Code(2)} :
         ev = [op |-> "Arith", expr |-> x,
               env |-> Env(<<>>, None, [NoVars EXCEPT !["x"] = v], st),
               done |-> FALSE, out |-> None]
    /\ IdlePipeline
    /\ IdleEnv
    /\ IdleLoop
    /\ IdleSubshell
    /\ IdleParamSubst
    /\ IdleRestorer
    /\ IdleCalls
    /\ IdleCmdSubst
    /\ IdleWord
    /\ IdleRead

\* The expression is evaluated.
ArithEval ==
    /\ EvAt("Arith")
    /\ LET o == Arithmetic_eval(ev.expr, ev.env) IN
       ev' = [ev EXCEPT !.done = TRUE,
                        !.out = [result |-> o.r, env |-> o.env, order |-> o.order]]
    /\ UNCHANGED notEvalVars

RECURSIVE Reference(_, _, _)
\* A reference evaluator: the operands from left to right, the operators of
\* C over the integers; unary plus is the identity, or the absolute value
\* when `abs` is set.
Reference(x, e, abs) ==
    IF x.a \in {"Literal", "Var", "PostDecr", "PreIncr"} THEN Arithmetic_eval(x, e)
    ELSE IF x.a = "Assign"
        THEN LET v == Reference(x.value, e, abs) IN
             IF ~v.r.ok THEN v
             ELSE Arith(v.r, set_var(v.env, x.var, IntToString(v.r.v)), <<>>)
    ELSE IF x.a \in UnaryOps
        THEN LET v == Reference(x.expr, e, abs) IN
             IF ~v.r.ok THEN v
             ELSE Arith(Ok(IF x.a = "UnaryPlus"
                               THEN (IF abs /\ v.r.v < 0 THEN 0 - v.r.v ELSE v.r.v)
                           ELSE IF x.a = "UnaryMinus" THEN 0 - v.r.v
                           ELSE IF x.a = "BitwiseNot" THEN 0 - v.r.v - 1
                           ELSE IF v.r.v = 0 THEN 1 ELSE 0),
                        v.env, <<>>)
    ELSE LET l == Reference(x.left, e, abs) IN
         IF ~l.r.ok THEN l
         ELSE IF x.a = "LogicalAnd" /\ l.r.v = 0 THEN Arith(Ok(0), l.env, <<>>)
         ELSE IF x.a = "LogicalOr" /\ l.r.v # 0 THEN Arith(Ok(1), l.env, <<>>)
         ELSE LET r == Reference(x.right, l.env, abs) IN
              IF ~r.r.ok THEN r
              ELSE IF x.a \in LogicalOps
                  THEN Arith(Ok(IF r.r.v # 0 THEN 1 ELSE 0), r.env, <<>>)
              ELSE IF x.a = "Pow" /\ r.r.v < 0
                  THEN Arith(Err(ExpansionError("NegativeExponent", None)), r.env, <<>>)
              ELSE IF x.a \in {"Div", "Modulo"} /\ r.r.v = 0
                  THEN Arith(Err(ExpansionError("DivideByZero", None)), r.env, <<>>)
              ELSE Arith(Ok(Apply(x.a, l.r.v, r.r.v)), r.env, <<>>)

\* C25: when an evaluation fails with an expansion error (BadAssig,
\* EmptyParameter, DivideByZero, NegativeExponent) the last status of the
\* environment is EXIT_ERROR when the error is returned.
C25_ExpansionErrorSetsLastStatus ==
    (/\ ev # None
     /\ ev.op \in {"Default", "Assign", "Error", "Arith"}
     /\ ev.done
     /\ ~ev.out.result.ok) =>
        /\ ev.out.result.v.kind \in
             {"BadAssig", "EmptyParameter", "DivideByZero", "NegativeExponent"}
        /\ ev.out.env.last_status = EXIT_ERROR

\* 2 / x with x unset, the last status being 0 before: DivideByZero, and the
\* last status is 1
C25_Witness ==
    /\ EvDone("Arith")
    /\ ev.expr = Binary("Div", Lit(2), OnVar("Var", "x"))
    /\ ev.env.vars["x"] = None
    /\ ev.env.last_status = EXIT_SUCCESS
    /\ ev.out.result = Err(ExpansionError("DivideByZero", None))
    /\ ev.out.env.last_status = EXIT_ERROR

\* C26: for every binary operator, / % and ** too, the left operand is
\* evaluated, its side effects applied, before the right one.
C26_LeftOperandEvaluatedFirst ==
    EvDone("Arith") =>
        ev.out.order \in {<<>>, <<"left">>, <<"left", "right">>}

Constant(x) ==
    \/ x.a = "Literal"
    \/ x.a \in UnaryOps /\ x.expr.a = "Literal"
    \/ x.a \in RightFirstOps /\ x.left.a = "Literal" /\ x.right.a = "Literal"
Pure(x) ==
    \/ Constant(x)
    \/ x.a = "Var"
    \/ x.a \in UnaryOps /\ x.expr.a = "Var"

\* The operands of an expression do not depend on the order they are
\* evaluated in.
Independent(x) ==
    \/ Constant(x.left)
    \/ Constant(x.right)
    \/ Pure(x.left) /\ Pure(x.right)

Utf8Chars == {<<"a">>, <<"b">>, <<"c3", "a9">>}

RECURSIVE Encode(_)
\* The bytes of a sequence of characters.
Encode(chs) == IF chs = <<>> THEN <<>> ELSE Head(chs) \o Encode(Tail(chs))

RECURSIVE Decode(_)
\* str::chars: the characters of a well formed sequence of bytes
Decode(s) ==
    IF s = <<>> THEN <<>>
    ELSE IF s[1] = "c3" THEN <<SubSeq(s, 1, 2)>> \o Decode(SubSeq(s, 3, Len(s)))
    ELSE <<SubSeq(s, 1, 1)>> \o Decode(Tail(s))

\* str::is_char_boundary: the start, the end, or the first byte of a character
is_char_boundary(s, idx) == idx = 0 \/ idx = Len(s) \/ s[idx + 1] # "a9"

\* A glob pattern: characters, `?` and `*`.
PatChar(c) == [tok |-> "char", c |-> c]
PatAny == [tok |-> "?", c |-> <<>>]
PatStar == [tok |-> "*", c |-> <<>>]
PatTokens == {PatChar(<<"a">>), PatChar(<<"c3", "a9">>), PatAny, PatStar}
Patterns == UNION {[1..n -> PatTokens] : n \in 0..2}

RECURSIVE MatchChars(_, _)
\* glob::Pattern::matches_with over the characters of a string; the options
\* ask for nothing special about separators or a leading dot
MatchChars(pat, chs) ==
    IF pat = <<>> THEN chs = <<>>
    ELSE IF Head(pat).tok = "*"
        THEN \E k \in 0..Len(chs) : MatchChars(Tail(pat), SubSeq(chs, k + 1, Len(chs)))
    ELSE /\ chs # <<>>
         /\ Head(pat).tok = "?" \/ Head(pat).c = Head(chs)
         /\ MatchChars(Tail(pat), Tail(chs))

matches_with(pat, s) == MatchChars(pat, Decode(s))

NOT_CHAR_BOUNDARY == "byte index is not a char boundary"

RECURSIVE SmallestPrefixFrom(_, _, _)
\* RemoveSmallestPrefix: for idx in 0..s.len(): the first s[0..idx] that
\* matches is cut off; then the whole string is tried
SmallestPrefixFrom(s, pat, idx) ==
    IF idx = Len(s) THEN Ok(IF matches_with(pat, s) THEN <<>> ELSE s)
    ELSE IF ~is_char_boundary(s, idx) THEN Err(Panic(NOT_CHAR_BOUNDARY))
    ELSE IF matches_with(pat, SubSeq(s, 1, idx))
        THEN Ok(SubSeq(s, idx + 1, Len(s)))
    ELSE SmallestPrefixFrom(s, pat, idx + 1)

remove_smallest_prefix(s, pat) == SmallestPrefixFrom(s, pat, 0)

\* RemoveLargestPrefix: the whole string is tried first; then every
\* s[0..idx] for idx in 0..s.len(), the last one that matches is cut off
remove_largest_prefix(s, pat) ==
    IF matches_with(pat, s) THEN Ok(<<>>)
    ELSE IF \E idx \in 0..(Len(s) - 1) : ~is_char_boundary(s, idx)
        THEN Err(Panic(NOT_CHAR_BOUNDARY))
    ELSE LET ends == {idx \in 0..(Len(s) - 1) : matches_with(pat, SubSeq(s, 1, idx))}
         IN  IF ends = {} THEN Ok(s)
             ELSE Ok(SubSeq(s, 1 + (CHOOSE i \in ends : \A j \in ends : j <= i),
                            Len(s)))

\* remove_pattern over a variable that is set, and the empty Single turned
\* into Zero on return
eval_inner_Remove(largest, s, pat) ==
    LET r == IF largest THEN remove_largest_prefix(s, pat)
             ELSE remove_smallest_prefix(s, pat)
    IN  IF r.ok THEN Ok(EmptyIsZero(Single(r.v))) ELSE r

InitRemove ==
    /\ \E largest \in BOOLEAN, pat \in Patterns,
          chs \in UNION {[1..n -> Utf8Chars] : n \in 0..MaxLen} :
         ev = [op |-> "Remove", largest |-> largest, s |-> Encode(chs),
               pat |-> pat, done |-> FALSE, out |-> None]
    /\ IdlePipeline
    /\ IdleEnv
    /\ IdleLoop
    /\ IdleSubshell
    /\ IdleParamSubst
    /\ IdleRestorer
    /\ IdleCalls
    /\ IdleCmdSubst
    /\ IdleWord
    /\ IdleRead

\* The prefix is removed.
RemovePrefix ==
    /\ EvAt("Remove")
    /\ ev' = [ev EXCEPT !.done = TRUE,
                        !.out = eval_inner_Remove(ev.largest, ev.s, ev.pat)]
    /\ UNCHANGED notEvalVars

\* How many characters the prefixes of a string that match a pattern have.
MatchingPrefixes(s, pat) ==
    {k \in 0..Len(Decode(s)) : MatchChars(pat, SubSeq(Decode(s), 1, k))}

\* The string without its first k characters.
DropChars(s, k) == Encode(SubSeq(Decode(s), k + 1, Len(Decode(s))))

\* C29: RemoveSmallestPrefix returns what is left of the string after its
\* shortest prefix that matches the pattern, RemoveLargestPrefix after its
\* longest one; the string itself when no prefix matches.
C29_RemovesMatchingPrefix ==
    EvDone("Remove") =>
        LET ks == MatchingPrefixes(ev.s, ev.pat) IN
        /\ ev.out.ok
        /\ join(ev.out.v) =
             IF ks = {} THEN ev.s
             ELSE IF ev.largest
                 THEN DropChars(ev.s, CHOOSE k \in ks : \A j \in ks : j <= k)
             ELSE DropChars(ev.s, CHOOSE k \in ks : \A j \in ks : k <= j)

\* The variables Env::with_config reads and writes.
ConfigVarNames == {"SHLVL", "PWD", "OLDPWD", "IFS"}

Var(value, exported) == Some([value |-> value, exported |-> exported])

\* VariableEnvironment::var: the value of a variable, if it is set
VarEnv_var(var_env, name) ==
    IF var_env[name] = None THEN None ELSE Some(var_env[name].some.value)

\* ExportedVariableEnvironment::set_exported_var
VarEnv_set_exported_var(var_env, name, val, exported) ==
    [var_env EXCEPT ![name] = Var(val, exported)]

\* VariableEnvironment::set_var: the value is replaced, an export is kept
VarEnv_set_var(var_env, name, val) ==
    [var_env EXCEPT ![name] =
        Var(val, var_env[name] # None /\ var_env[name].some.exported)]

\* Env::with_config: SHLVL is the old level plus one, or 1; PWD and OLDPWD are
\* the working directory; IFS is set to IFS_DEFAULT
Env_with_config(cfg) ==
    LET lvl == VarEnv_var(cfg.var_env, "SHLVL")
        level == IF lvl = None \/ Parse(lvl.some) = None THEN IntToString(1)
                 ELSE IntToString(Parse(lvl.some).some + 1)
        v1 == VarEnv_set_exported_var(cfg.var_env, "SHLVL", level, TRUE)
        v2 == VarEnv_set_exported_var(v1, "PWD", cfg.cwd, TRUE)
        v3 == VarEnv_set_exported_var(v2, "OLDPWD", cfg.cwd, TRUE)
    IN  VarEnv_set_var(v3, "IFS", IFS_DEFAULT)

\* The variable environments and directories an Env is made with.
ConfigLevels == {None, Var(<<"1">>, TRUE), Var(<<"-", "1">>, FALSE), Var(<<"x">>, TRUE)}
ConfigIfs == {None, Var(<<>>, FALSE), Var(<<":">>, FALSE), Var(<<":">>, TRUE),
              Var(IFS_DEFAULT, FALSE)}
ConfigDirs == {<<"/">>, <<"/", "a">>}

InitWithConfig ==
    /\ \E lvl \in ConfigLevels, ifs \in ConfigIfs, cwd \in ConfigDirs,
          pwd \in {None} \cup {Var(d, e) : d \in ConfigDirs, e \in BOOLEAN} :
         ev = [op |-> "WithConfig",
               cfg |-> [var_env |-> [n \in ConfigVarNames |->
                                       CASE n = "SHLVL" -> lvl
                                         [] n = "IFS" -> ifs
                                         [] n = "PWD" -> pwd
                                         [] OTHER -> None],
                        cwd |-> cwd],
               done |-> FALSE, out |-> None]
    /\ IdlePipeline
    /\ IdleEnv
    /\ IdleLoop
    /\ IdleSubshell
    /\ IdleParamSubst
    /\ IdleRestorer
    /\ IdleCalls
    /\ IdleCmdSubst
    /\ IdleWord
    /\ IdleRead

\* The environment is made.
WithConfig ==
    /\ EvAt("WithConfig")
    /\ ev' = [ev EXCEPT !.done = TRUE, !.out = Env_with_config(ev.cfg)]
    /\ UNCHANGED notEvalVars

\* C30: a new environment has IFS set to the default value when the variables
\* it was given have no IFS, and has the IFS it was given otherwise.
C30_GivenIfsIsPreserved ==
    EvDone("WithConfig") =>
        VarEnv_var(ev.out, "IFS") =
            IF VarEnv_var(ev.cfg.var_env, "IFS") = None THEN Some(IFS_DEFAULT)
            ELSE VarEnv_var(ev.cfg.var_env, "IFS")

RECURSIVE SmallestSuffixFrom(_, _, _)
\* RemoveSmallestSuffix: for idx in 0..len, from len - 1 down to 0: the first
\* s[idx..] that matches is cut off
SmallestSuffixFrom(s, pat, idx) ==
    IF idx < 0 THEN Ok(s)
    ELSE IF ~is_char_boundary(s, idx) THEN Err(Panic(NOT_CHAR_BOUNDARY))
    ELSE IF matches_with(pat, SubSeq(s, idx + 1, Len(s)))
        THEN Ok(SubSeq(s, 1, idx))
    ELSE SmallestSuffixFrom(s, pat, idx - 1)

remove_smallest_suffix(s, pat) == SmallestSuffixFrom(s, pat, Len(s) - 1)

\* RemoveLargestSuffix: every s[idx..] from len - 1 down to 0 is tried, the
\* last one that matches is cut off
remove_largest_suffix(s, pat) ==
    IF \E idx \in 0..(Len(s) - 1) : ~is_char_boundary(s, idx)
        THEN Err(Panic(NOT_CHAR_BOUNDARY))
    ELSE LET starts == {idx \in 0..(Len(s) - 1) :
                          matches_with(pat, SubSeq(s, idx + 1, Len(s)))}
         IN  IF starts = {} THEN Ok(s)
             ELSE Ok(SubSeq(s, 1, CHOOSE i \in starts : \A j \in starts : i <= j))

\* remove_pattern over a variable that is set, and the empty Single turned
\* into Zero on return
eval_inner_RemoveSuffix(largest, s, pat) ==
    LET r == IF largest THEN remove_largest_suffix(s, pat)
             ELSE remove_smallest_suffix(s, pat)
    IN  IF r.ok THEN Ok(EmptyIsZero(Single(r.v))) ELSE r

InitRemoveSuffix ==
    /\ \E largest \in BOOLEAN, pat \in Patterns,
          chs \in UNION {[1..n -> Utf8Chars] : n \in 0..MaxLen} :
         ev = [op |-> "RemoveSuffix", largest |-> largest, s |-> Encode(chs),
               pat |-> pat, done |-> FALSE, out |-> None]
    /\ IdlePipeline
    /\ IdleEnv
    /\ IdleLoop
    /\ IdleSubshell
    /\ IdleParamSubst
    /\ IdleRestorer
    /\ IdleCalls
    /\ IdleCmdSubst
    /\ IdleWord
    /\ IdleRead

\* The suffix is removed.
RemoveSuffix ==
    /\ EvAt("RemoveSuffix")
    /\ ev' = [ev EXCEPT !.done = TRUE,
                        !.out = eval_inner_RemoveSuffix(ev.largest, ev.s, ev.pat)]
    /\ UNCHANGED notEvalVars

\* How many characters the suffixes of a string that match a pattern have,
\* from the whole string down to the empty suffix.
MatchingSuffixes(s, pat) ==
    {k \in 0..Len(Decode(s)) :
        MatchChars(pat, SubSeq(Decode(s), Len(Decode(s)) - k + 1, Len(Decode(s))))}

\* The string without its last k characters.
DropLastChars(s, k) == Encode(SubSeq(Decode(s), 1, Len(Decode(s)) - k))

\* C36: RemoveSmallestSuffix returns the string without its shortest suffix
\* that matches the pattern, RemoveLargestSuffix without its longest one, the
\* suffixes tried being all of them, from the whole string down to the empty
\* one; the string itself when no suffix matches.
C36_RemovesMatchingSuffix ==
    EvDone("RemoveSuffix") =>
        LET ks == MatchingSuffixes(ev.s, ev.pat) IN
        /\ ev.out.ok
        /\ join(ev.out.v) =
             IF ks = {} THEN ev.s
             ELSE IF ev.largest
                 THEN DropLastChars(ev.s, CHOOSE k \in ks : \A j \in ks : j <= k)
             ELSE DropLastChars(ev.s, CHOOSE k \in ks : \A j \in ks : k <= j)

(***************************************************************************)
(* Arithmetic at the width of the machine.  isize is kept in IntBits bits, *)
(* two's complement; what an operation that overflows does depends on the  *)
(* build: it panics with overflow checks (debug) and wraps without them    *)
(* (release).                                                              *)
(***************************************************************************)
IntBits == 4
IntMin == 0 - 2 ^ (IntBits - 1)
IntMax == 2 ^ (IntBits - 1) - 1

\* The value of an integer cut to IntBits bits.
Wrap(n) == ((n - IntMin) % (2 ^ IntBits)) + IntMin

InRange(n) == IntMin <= n /\ n <= IntMax

\* An operation whose exact result is n: the result if it fits; otherwise a
\* panic with overflow checks, and the wrapped result without.
Overflowing(n, build, what) ==
    IF InRange(n) THEN Ok(n)
    ELSE IF build = "debug" THEN Err(Panic(what))
    ELSE Ok(Wrap(n))

RECURSIVE WrappingPow(_, _)
\* isize::pow, as the wrapped value and whether it overflowed on the way
WrappingPow(a, n) ==
    IF n = 0 THEN [v |-> 1, overflow |-> FALSE]
    ELSE LET p == WrappingPow(a, n - 1) IN
         [v |-> Wrap(a * p.v), overflow |-> p.overflow \/ ~InRange(a * p.v)]

\* isize / isize and isize % isize with a divisor that is not 0: the minimum
\* divided by -1 panics in every build
MachineDiv(op, a, b, build) ==
    IF a = IntMin /\ b = -1
        THEN Err(Panic(IF op = "Div" THEN "attempt to divide with overflow"
                       ELSE "attempt to calculate the remainder with overflow"))
    ELSE Ok(Apply(op, a, b))

\* isize << isize and isize >> isize: an amount below 0 or not below the
\* width panics with overflow checks, and is cut to the width without
MachineShift(op, a, b, build) ==
    IF ~(0 <= b /\ b < IntBits) /\ build = "debug"
        THEN Err(Panic("attempt to shift with overflow"))
    ELSE IF op = "ShiftLeft" THEN Ok(Wrap(a * 2 ^ (b % IntBits)))
    ELSE Ok(a \div 2 ^ (b % IntBits))

WidthUnaryOps == {"UnaryPlus", "UnaryMinus"}
WidthBinaryOps ==
    {"Add", "Sub", "Mult", "Pow", "Div", "Modulo", "ShiftLeft", "ShiftRight"}

\* Arithmetic::eval of one operator over literals, at the width of the machine
Arithmetic_eval_Machine(op, a, b, build) ==
    IF op = "UnaryPlus"
        THEN Overflowing(Abs(a), build, "attempt to negate with overflow")
    ELSE IF op = "UnaryMinus"
        THEN Overflowing(0 - a, build, "attempt to negate with overflow")
    ELSE IF op = "Add"
        THEN Overflowing(a + b, build, "attempt to add with overflow")
    ELSE IF op = "Sub"
        THEN Overflowing(a - b, build, "attempt to subtract with overflow")
    ELSE IF op = "Mult"
        THEN Overflowing(a * b, build, "attempt to multiply with overflow")
    ELSE IF op = "Pow"
        THEN IF b < 0 THEN Err(ExpansionError("NegativeExponent", None))
             ELSE IF WrappingPow(a, b).overflow /\ build = "debug"
                 THEN Err(Panic("attempt to multiply with overflow"))
             ELSE Ok(WrappingPow(a, b).v)
    ELSE IF op \in {"Div", "Modulo"}
        THEN IF b = 0 THEN Err(ExpansionError("DivideByZero", None))
             ELSE MachineDiv(op, a, b, build)
    ELSE MachineShift(op, a, b, build)

\* The operands: the ends of the range and the numbers next to zero.
MachineOperands == {IntMin, -1, 0, 1, 2, IntBits, IntMax}

InitMachine ==
    /\ \E op \in WidthUnaryOps \cup WidthBinaryOps, a \in MachineOperands,
          b \in MachineOperands, build \in Builds :
         /\ op \in WidthUnaryOps => b = 0
         /\ ev = [op |-> "Machine", a |-> op, left |-> a, right |-> b,
                  build |-> build, done |-> FALSE, out |-> None]
    /\ IdlePipeline
    /\ IdleEnv
    /\ IdleLoop
    /\ IdleSubshell
    /\ IdleParamSubst
    /\ IdleRestorer
    /\ IdleCalls
    /\ IdleCmdSubst
    /\ IdleWord
    /\ IdleRead

\* The expression is evaluated.
MachineEval ==
    /\ EvAt("Machine")
    /\ ev' = [ev EXCEPT !.done = TRUE,
                        !.out = Arithmetic_eval_Machine(ev.a, ev.left, ev.right,
                                                        ev.build)]
    /\ UNCHANGED notEvalVars

\* C40: the evaluation of an arithmetic expression returns an integer or
\* fails with DivideByZero or NegativeExponent; it does not abort, whatever
\* overflows.
C40_ArithmeticNeverAborts ==
    EvDone("Machine") =>
        \/ ev.out.ok /\ InRange(ev.out.v)
        \/ /\ ~ev.out.ok
           /\ ev.out.v \in {ExpansionError("DivideByZero", None),
                            ExpansionError("NegativeExponent", None)}

(***************************************************************************)
(* The cd builtin (src/src/spawn/builtin/cd.rs)                            *)
(***************************************************************************)
\* How many cd commands run one after the other.
MaxCds == 2

\* A path: absolute or relative, and its components.
Path(abs, comps) == [abs |-> abs, comps |-> comps]

\* The argument `-`.
Dash == Path(FALSE, <<"-">>)

\* The directories that exist; every other path names nothing.
Directories == {<<>>, <<"a">>, <<"a", "b">>, <<"h">>}

\* Path::is_dir
is_dir(path) == path.abs /\ path.comps \in Directories

\* PathBuf::join: an absolute path replaces the one it is joined to
PathJoin(base, path) ==
    IF path.abs THEN path ELSE Path(base.abs, base.comps \o path.comps)

\* The variables cd reads and writes.
CdVarNames == {"HOME", "OLDPWD", "PWD", "CDPATH"}

\* WorkingDirectoryEnvironment::path_relative_to_working_dir
path_relative_to_working_dir(e, path) == PathJoin(e.cwd, path)

\* ChangeWorkingDirectoryEnvironment for the working directory module: the
\* directory is changed when the path names one, and left alone otherwise
WorkingDir_change_working_dir(e, path) ==
    IF is_dir(path_relative_to_working_dir(e, path))
        THEN Ok([e EXCEPT !.cwd = path_relative_to_working_dir(e, path)])
    ELSE Err("io")

\* mutant: PWD is written before the directory is changed
Env_change_working_dir_VarsFirst(e, path) ==
    LET r == WorkingDir_change_working_dir(e, path) IN
    IF ~r.ok THEN Err([e EXCEPT !.vars["PWD"] = Some(path)])
    ELSE Ok([r.v EXCEPT !.vars["PWD"] = Some(r.v.cwd),
                        !.vars["OLDPWD"] = Some(e.cwd)])

\* Env::change_working_dir: the directory is changed, then PWD is the new
\* directory and OLDPWD the one before; an error returns before both
Env_change_working_dir(e, path) ==
    LET r == WorkingDir_change_working_dir(e, path) IN
    IF ~r.ok THEN Err(e)
    ELSE Ok([r.v EXCEPT !.vars["PWD"] = Some(r.v.cwd),
                        !.vars["OLDPWD"] = Some(e.cwd)])

\* is_cdpath_candidate: a relative path (none of the model starts with . or ..)
is_cdpath_candidate(path) == ~path.abs

RECURSIVE FindDir(_, _, _)
\* cdpath_candidate: the first of the CDPATH entries under which dir is a
\* directory
FindDir(dir, cdpaths, e) ==
    IF cdpaths = <<>> THEN None
    ELSE LET path == path_relative_to_working_dir(e, PathJoin(Head(cdpaths), dir))
         IN  IF is_dir(path) THEN Some(path) ELSE FindDir(dir, Tail(cdpaths), e)

cdpath_candidate(dir, cdpaths, e) == FindDir(dir, cdpaths, e)

\* get_dir_arg: HOME without an argument, OLDPWD for `-`, the argument
\* otherwise; then the CDPATH search for a relative path
get_dir_arg(dir, e) ==
    LET var == IF dir = None THEN "HOME" ELSE "OLDPWD"
        named == dir = None \/ dir = Some(Dash)
        path == IF named THEN e.vars[var].some ELSE dir.some
        candidate == IF is_cdpath_candidate(path) /\ e.vars["CDPATH"] # None
                         THEN cdpath_candidate(path, e.vars["CDPATH"].some, e)
                     ELSE None
    IN  IF named /\ e.vars[var] = None THEN Err(var)
        ELSE IF candidate # None
            THEN Ok([dir |-> candidate.some, should_print_pwd |-> TRUE])
        ELSE Ok([dir |-> path_relative_to_working_dir(e, path),
                 should_print_pwd |-> dir = Some(Dash)])

\* get_new_working_dir: the path is normalized, with -P through the file
\* system, which fails for a path that names nothing
get_new_working_dir(flags, e) ==
    LET r == get_dir_arg(flags.dir, e) IN
    IF ~r.ok THEN r
    ELSE IF flags.resolve_symlinks /\ ~is_dir(r.v.dir) THEN Err("io")
    ELSE r

\* mutant: OLDPWD is left as it was
perform_cd_change_KeepsOldpwd(should_print_pwd, new_working_dir, e) ==
    LET r == Env_change_working_dir(e, new_working_dir) IN
    IF ~r.ok THEN [env |-> r.v, status |-> EXIT_ERROR, printed |-> None]
    ELSE [env |-> [r.v EXCEPT !.vars["OLDPWD"] = e.vars["OLDPWD"],
                              !.vars["PWD"] = Some(r.v.cwd)],
          status |-> EXIT_SUCCESS,
          printed |-> IF should_print_pwd THEN Some(r.v.cwd) ELSE None]

\* perform_cd_change: the directory before is kept, the directory is changed,
\* and OLDPWD and PWD are set to the one before and the new one
perform_cd_change(should_print_pwd, new_working_dir, e) ==
    LET old_pwd == e.cwd
        r == Env_change_working_dir(e, new_working_dir)
    IN  IF ~r.ok THEN [env |-> r.v, status |-> EXIT_ERROR, printed |-> None]
        ELSE [env |-> [r.v EXCEPT !.vars["OLDPWD"] = Some(old_pwd),
                                  !.vars["PWD"] = Some(r.v.cwd)],
              status |-> EXIT_SUCCESS,
              printed |-> IF should_print_pwd THEN Some(r.v.cwd) ELSE None]

\* SpawnedCd::poll
SpawnedCd_poll(flags, e) ==
    LET r == get_new_working_dir(flags, e) IN
    IF ~r.ok THEN [env |-> e, status |-> EXIT_ERROR, printed |-> None]
    ELSE perform_cd_change(r.v.should_print_pwd, r.v.dir, e)

\* The arguments of cd and the environments it starts in.
CdDirs ==
    {None, Some(Dash), Some(Path(TRUE, <<"a">>)), Some(Path(TRUE, <<"x">>)),
     Some(Path(FALSE, <<"b">>))}
CdFlags == [resolve_symlinks : BOOLEAN, dir : CdDirs]
CdHomes == {None, Some(Path(TRUE, <<"h">>)), Some(Path(TRUE, <<"x">>))}
CdPaths == {None, Some(<<Path(TRUE, <<"x">>), Path(TRUE, <<"a">>)>>)}

InitCd ==
    /\ \E cwd \in {Path(TRUE, <<>>), Path(TRUE, <<"a">>)}, home \in CdHomes,
          cdpath \in CdPaths, unset \in SUBSET {"OLDPWD", "PWD"} :
         ev = [op |-> "Cd",
               env |-> [cwd |-> cwd,
                        vars |-> [n \in CdVarNames |->
                                    CASE n = "HOME" -> home
                                      [] n = "CDPATH" -> cdpath
                                      [] OTHER -> IF n \in unset THEN None
                                                  ELSE Some(cwd)]],
               n |-> 0, done |-> FALSE, flags |-> None, before |-> None,
               out |-> None]
    /\ IdlePipeline
    /\ IdleEnv
    /\ IdleLoop
    /\ IdleSubshell
    /\ IdleParamSubst
    /\ IdleRestorer
    /\ IdleCalls
    /\ IdleCmdSubst
    /\ IdleWord
    /\ IdleRead

\* A cd command runs in the environment the one before left.
Cd ==
    /\ ev # None
    /\ ev.op = "Cd"
    /\ ev.n < MaxCds
    /\ \E flags \in CdFlags :
         LET r == SpawnedCd_poll(flags, ev.env) IN
         ev' = [ev EXCEPT !.env = r.env, !.n = @ + 1, !.done = TRUE,
                          !.flags = flags, !.before = ev.env, !.out = r]
    /\ UNCHANGED notEvalVars

\* C32: after a cd that succeeds, PWD is the new working directory and
\* OLDPWD is the working directory from before the command.
C32_CdSetsPwdAndOldpwd ==
    (EvDone("Cd") /\ ev.out.status = EXIT_SUCCESS) =>
        /\ ev.env.vars["PWD"] = Some(ev.env.cwd)
        /\ ev.env.vars["OLDPWD"] = Some(ev.before.cwd)

\* cd has moved to another directory, and OLDPWD was something else before.
C32_Witness ==
    /\ EvDone("Cd")
    /\ ev.out.status = EXIT_SUCCESS
    /\ ev.env.cwd # ev.before.cwd
    /\ ev.before.vars["OLDPWD"] # Some(ev.before.cwd)
    /\ ev.env.vars["OLDPWD"] = Some(ev.before.cwd)
    /\ ev.env.vars["PWD"] = Some(ev.env.cwd)

\* C39: a cd that finds no target (HOME or OLDPWD unset when it is needed)
\* or that fails to change the directory leaves the working directory, PWD
\* and OLDPWD as they were.
C39_FailedCdChangesNothing ==
    (EvDone("Cd") /\ ev.out.status # EXIT_SUCCESS) =>
        /\ ev.env.cwd = ev.before.cwd
        /\ ev.env.vars["PWD"] = ev.before.vars["PWD"]
        /\ ev.env.vars["OLDPWD"] = ev.before.vars["OLDPWD"]

\* cd to a path that names nothing has failed after an earlier cd that moved.
C39_Witness ==
    /\ EvDone("Cd")
    /\ ev.n = 2
    /\ ev.out.status = EXIT_ERROR
    /\ ev.flags.dir = Some(Path(TRUE, <<"x">>))
    /\ ev.env = ev.before
    /\ ev.env.vars["OLDPWD"] # ev.env.vars["PWD"]

\* `$@` or `$*` has been evaluated
AtOrStarDone ==
    /\ EvDone("Parameter")
    /\ ev.p.param \in {"At", "Star"}

\* C22 as stated: `$@` and `$*` never evaluate to At([]) or Star([]); Zero
\* stands for no fields.
C22_NeverEmptyAtOrStar ==
    AtOrStarDone =>
        (into_iter(ev.result.some) = <<>> => ev.result.some = Zero)

\* C28: `$?` is the decimal string of the code as it is for Code(c), for every
\* i32 c, and of s + 128 for Signal(s).
C28_QuestionIsTheCodeVerbatim ==
    (EvDone("Parameter") /\ ev.p.param = "Question") =>
        ev.result =
            Some(Single(IF ev.env.last_status.t = "Code"
                        THEN NumberString(StatusNumber_Signed(ev.env.last_status))
                        ELSE u32_to_string(as_u32(ev.env.last_status.n
                                                  + EXIT_SIGNAL_OFFSET))))

NextEval ==
    \/ ParameterEvalDone
    \/ SubstDefault
    \/ SubstAssign
    \/ SubstError
    \/ ArithEval
    \/ RemovePrefix
    \/ WithConfig
    \/ Cd
    \/ RemoveSuffix
    \/ MachineEval

InitEval ==
    \/ InitMachine
    \/ InitRemoveSuffix
    \/ InitParameter
    \/ InitSubst
    \/ InitArith
    \/ InitRemove
    \/ InitWithConfig
    \/ InitCd

SpecEval == InitEval /\ [][NextEval]_vars

(***************************************************************************)
(* The thread pool reader (src/src/env/async_io/cpu_pool.rs)               *)
(***************************************************************************)
\* How many reads the descriptor answers before end of file, how many bytes
\* the destination buffer of a read has at most, and how many times the
\* consumer reads.
MaxEvents == 3
MaxDest == 2
MaxReads == 4

\* What a read of the descriptor gives: a chunk of one or two bytes, or an
\* error; after the last of them, end of file.
FdEvents == {"one", "two", "Interrupted", "WouldBlock"}

\* The bytes of the descriptor are numbered in the order they are read.
FdBytes(from, n) == [i \in 1..n |-> from + i]

ChunkLen(event) == IF event = "one" THEN 1 ELSE 2

\* channel(0) with one sender: the sender's own slot holds one message
ChannelSlots == 1

RECURSIVE Flatten(_)
Flatten(chunks) ==
    IF chunks = <<>> THEN <<>> ELSE Head(chunks) \o Flatten(Tail(chunks))

MinOf(a, b) == IF a <= b THEN a ELSE b

\* mutant: what was handed out stays in the buffer
Drain_KeepsAll(data, n) == data

\* data.drain(0..n)
Drain(data, n) == SubSeq(data, n + 1, Len(data))

RECURSIVE ThreadPoolReadAsync_read(_, _)
\* ThreadPoolReadAsync::read: from self.buf when it holds bytes; otherwise
\* the next chunk of the channel, 0 when the channel is closed and empty,
\* WouldBlock when it is only empty
ThreadPoolReadAsync_read(r, dest) ==
    IF r.buf # None /\ r.buf.some # <<>>
        THEN LET n == MinOf(Len(r.buf.some), dest) IN
             [r EXCEPT !.buf = Some(Drain(r.buf.some, n)),
                       !.out = @ \o SubSeq(r.buf.some, 1, n),
                       !.last = Ok(n)]
    ELSE IF r.chan # <<>>
        THEN ThreadPoolReadAsync_read(
                 [r EXCEPT !.buf = Some(Head(r.chan)), !.chan = Tail(r.chan)], dest)
    ELSE IF r.pc = "done"
        THEN [r EXCEPT !.buf = None, !.last = Ok(0)]
    ELSE [r EXCEPT !.last = Err("WouldBlock")]

\* read_async: the producer is spawned on the pool, the reader is handed out
InitRead ==
    /\ \E fd \in UNION {[1..n -> FdEvents] : n \in 0..MaxEvents} :
         rd = [fd |-> fd, taken |-> 0, pc |-> "fill", chunk |-> <<>>,
               failed |-> None, chan |-> <<>>, dropped |-> FALSE,
               buf |-> None, out |-> <<>>, last |-> None, dest |-> 0,
               reads |-> 0]
    /\ IdlePipeline
    /\ IdleEnv
    /\ IdleLoop
    /\ IdleSubshell
    /\ IdleParamSubst
    /\ IdleRestorer
    /\ IdleCalls
    /\ IdleCmdSubst
    /\ IdleWord
    /\ IdleEval

\* The producer: buf_reader.fill_buf().  An empty buffer (end of file) and an
\* error other than Interrupted leave the loop; Interrupted consumes nothing
\* and goes round again; a chunk is copied to be sent.
ProducerFill ==
    /\ rd # None
    /\ rd.pc = "fill"
    /\ rd' =
         IF rd.fd = <<>> THEN [rd EXCEPT !.pc = "done"]
         ELSE IF Head(rd.fd) = "Interrupted" THEN [rd EXCEPT !.fd = Tail(@)]
         ELSE IF Head(rd.fd) = "WouldBlock"
             THEN [rd EXCEPT !.fd = Tail(@), !.pc = "done",
                             !.failed = Some(Head(rd.fd))]
         ELSE [rd EXCEPT !.fd = Tail(@), !.pc = "send",
                         !.chunk = FdBytes(rd.taken, ChunkLen(Head(rd.fd))),
                         !.taken = @ + ChunkLen(Head(rd.fd))]
    /\ UNCHANGED notReadVars

\* The producer: tx.send(buf).wait(), then buf_reader.consume(len).  The send
\* waits for the sender's slot; it fails once the reader is gone.
ProducerSend ==
    /\ rd # None
    /\ rd.pc = "send"
    /\ rd.dropped \/ Len(rd.chan) < ChannelSlots
    /\ rd' = IF rd.dropped THEN [rd EXCEPT !.pc = "done", !.chunk = <<>>]
             ELSE [rd EXCEPT !.chan = Append(@, rd.chunk), !.chunk = <<>>,
                             !.pc = "fill"]
    /\ UNCHANGED notReadVars

\* The consumer reads into a buffer of dest bytes.
ReaderRead(dest) ==
    /\ rd # None
    /\ ~rd.dropped
    /\ rd.reads < MaxReads
    /\ rd' = [ThreadPoolReadAsync_read(rd, dest) EXCEPT !.dest = dest,
                                                        !.reads = @ + 1]
    /\ UNCHANGED notReadVars

\* The consumer drops the reader, and the receiver with it.
ReaderDrop ==
    /\ rd # None
    /\ ~rd.dropped
    /\ rd' = [rd EXCEPT !.dropped = TRUE, !.chan = <<>>, !.buf = None]
    /\ UNCHANGED notReadVars

NextRead ==
    \/ ProducerFill
    \/ ProducerSend
    \/ \E dest \in 0..MaxDest : ReaderRead(dest)
    \/ ReaderDrop

SpecRead == InitRead /\ [][NextRead]_vars

\* C37: when the read of the descriptor behind the reader has failed with an
\* error other than Interrupted, a read of the consumer does not present it
\* as the end of the input (a read of 0 bytes into a buffer that has room).
C37_ReadErrorIsNotEndOfInput ==
    (rd # None /\ rd.failed # None /\ rd.dest > 0) => rd.last # Ok(0)

\* The bytes on their way to the consumer, in order: the reader's buffer, the
\* channel, the chunk the producer is sending.
InFlight ==
    (IF rd.buf = None THEN <<>> ELSE rd.buf.some) \o Flatten(rd.chan) \o rd.chunk

(***************************************************************************)
(* C38: the bytes handed to the consumer, followed by those on their way,  *)
(* are the bytes read from the descriptor, each once and in order.  A read *)
(* into a buffer with room returns WouldBlock exactly when no chunk is     *)
(* there and the producer has not finished, 0 exactly when no chunk is     *)
(* there and the producer has finished, and the next bytes otherwise.      *)
(***************************************************************************)
C38_BytesOnceInOrder ==
    /\ [](rd # None /\ ~rd.dropped => rd.out \o InFlight = FdBytes(0, rd.taken))
    /\ [][(rd # None /\ rd' # None /\ rd'.reads # rd.reads /\ rd'.dest > 0) =>
            LET empty == (rd.buf = None \/ rd.buf.some = <<>>) /\ rd.chan = <<>> IN
            /\ rd'.last = Err("WouldBlock") <=> (empty /\ rd.pc # "done")
            /\ rd'.last = Ok(0) <=> (empty /\ rd.pc = "done")
            /\ ~empty =>
                 /\ rd'.last.ok
                 /\ rd'.last.v > 0
                 /\ rd'.out = rd.out \o SubSeq(InFlight, 1, rd'.last.v)]_vars

\* Three bytes read in two chunks have all reached the consumer, and the read
\* after them has returned 0.
C38_Witness ==
    /\ rd # None
    /\ rd.out = <<1, 2, 3>>
    /\ rd.failed = None
    /\ rd.pc = "done"
    /\ rd.last = Ok(0)
    /\ rd.dest > 0

(***************************************************************************)
(* Environments of the pipeline: a variable, a function and three file     *)
(* descriptors.  A running command writes its own index into one of them.  *)
(***************************************************************************)
EffKinds == {"var", "fn", "fd"}

CallerEnv == [var |-> 0, func |-> 0,
              fd |-> [f \in 0..2 |-> [pipe |-> 0, end |-> "caller"]]]

\* Env::sub_env, for the parts the pipeline looks at: a copy of the parent.
PipeSubEnv(e) == e

\* FileDescEnvironment::set_file_desc
SetFileDesc(e, n, h) == [e EXCEPT !.fd[n] = h]

\* The effect a running command has on the environment it was spawned in.
RunEffect(e, i, kind) ==
    CASE kind = "var" -> [e EXCEPT !.var = i]
      [] kind = "fn"  -> [e EXCEPT !.func = i]
      [] kind = "fd"  -> [e EXCEPT !.fd[2] = [pipe |-> i, end |-> "file"]]

\* init_pipeline: the environment stage i of n is spawned in (n >= 2):
\* a sub-environment whose STDIN is the reader of pipe i-1 (not for the first)
\* and whose STDOUT is the writer of pipe i (not for the last).
StageEnv(parent, i, n) ==
    LET e0 == PipeSubEnv(parent)
        e1 == IF i > 1 THEN SetFileDesc(e0, 0, [pipe |-> i - 1, end |-> "reader"])
                       ELSE e0
    IN  IF i < n THEN SetFileDesc(e1, 1, [pipe |-> i, end |-> "writer"]) ELSE e1

\* mutant: every command is spawned in the caller's environment
StageEnvId_CallerEnv(i, n) == 0

\* The index of the environment command i of n runs in: its own one in a
\* pipeline of two or more, the caller's own for a single command.
StageEnvId(i, n) == IF n >= 2 THEN i ELSE 0

InitPipeline ==
    /\ \E n \in 0..MaxStages : cmds \in [1..n -> StageOutcomes]
    /\ invert_last_status \in BOOLEAN
    /\ effKind \in EffKinds
    /\ pipeline_state = "InitMany"
    /\ listCancels = <<0, 0>>
    /\ listableResult = None
    /\ pipeline = <<>>
    /\ last = None
    /\ envs = [i \in {0} |-> CallerEnv]
    /\ envOf = <<>>
    /\ ready = {}
    /\ result = None
    /\ IdleEnv
    /\ IdleLoop
    /\ IdleSubshell
    /\ IdleParamSubst
    /\ IdleRestorer
    /\ IdleCalls
    /\ IdleCmdSubst
    /\ IdleWord
    /\ IdleEval
    /\ IdleRead

NumCmds == Len(cmds)

\* an empty pipeline counts as a failed command
EmptyPipeline_Failed == Ok(EXIT_ERROR)

\* Pipeline::finished(Ok(EXIT_SUCCESS)): an empty pipeline is treated as a
\* successful command
EmptyPipeline == Ok(EXIT_SUCCESS)

\* the status is handed through whatever invert_last_status says
InvertStatus_Never(invert, status) == status

\* InvertStatus: with invert_last_status, EXIT_ERROR if the command succeeds
\* and EXIT_SUCCESS otherwise; without, the status as it is.
InvertStatus(invert, status) ==
    IF ~invert THEN status
    ELSE IF success(status) THEN EXIT_ERROR ELSE EXIT_SUCCESS

\* InvertStatus::poll over what the wrapped future's poll gave: NotReady and
\* errors pass through.
InvertStatusPoll(invert, r) ==
    IF r = None \/ ~r.ok THEN r ELSE Ok(InvertStatus(invert, r.v))

\* ListableCommandEnvFuture::poll in State::InitMany
ListableInitMany ==
    /\ pipeline_state = "InitMany"
    /\ listCancels[1] = 0
    /\ LET n == NumCmds IN
         \/ /\ n = 0
            \* Pipeline::finished(Ok(EXIT_SUCCESS))
            /\ pipeline_state' = "Done"
            /\ last' = [tag |-> "Exited", ret |-> EmptyPipeline]
            /\ UNCHANGED <<pipeline, envs, envOf>>
         \/ /\ n = 1
            \* Transition::RunSingle(cmd.spawn(env)): the caller's environment
            /\ pipeline_state' = "Single"
            /\ envOf' = [i \in 1..1 |-> StageEnvId(i, n)]
            /\ UNCHANGED <<pipeline, last, envs>>
         \/ /\ n >= 2
            \* init_pipeline, then Pipeline::new
            /\ envs' = [i \in 0..n |-> IF i = 0 THEN envs[0]
                                        ELSE StageEnv(envs[0], i, n)]
            /\ envOf' = [i \in 1..n |-> StageEnvId(i, n)]
            /\ pipeline' = [i \in 1..(n - 1) |-> i]
            /\ last' = [tag |-> "Pending", id |-> n]
            /\ pipeline_state' = "Done"
    /\ UNCHANGED <<listableResult, listCancels, cmds, invert_last_status, effKind,
                   ready, result>>
    /\ UNCHANGED notPipeVars

\* A spawned command runs to completion in its environment; its future
\* resolves the next time it is polled.
StageRun(i) ==
    /\ i \in DOMAIN envOf
    /\ i \notin ready
    /\ result = None
    /\ listCancels[1] = 0
    /\ ready' = ready \cup {i}
    /\ envs' = [envs EXCEPT ![envOf[i]] = RunEffect(@, i, effKind)]
    /\ UNCHANGED <<listableResult, listCancels, cmds, invert_last_status, effKind, pipeline_state, pipeline,
                   last, envOf, result>>
    /\ UNCHANGED notPipeVars

\* ListableCommandEnvFuture::poll in State::Single
ListableSingle ==
    /\ pipeline_state = "Single"
    /\ listCancels[1] = 0
    /\ 1 \in ready
    /\ pipeline_state' = "Done"
    /\ last' = IF cmds[1].ok THEN [tag |-> "EitherB", id |-> 1]
               ELSE [tag |-> "Exited", ret |-> cmds[1]]
    /\ UNCHANGED <<listableResult, listCancels, cmds, invert_last_status, effKind, pipeline, envs, envOf,
                   ready, result>>
    /\ UNCHANGED notPipeVars

\* poll_pipeline: every earlier stage is polled; a finished one is dropped,
\* whatever it resolved to.
poll_pipeline(p, rdy) == SelectSeq(p, LAMBDA i : i \notin rdy)

\* Pipeline::poll as a function of the pipeline's state: the new pipeline, the
\* new last state and what the poll returns (None for Async::NotReady).
\* mutant: an error of an earlier stage is returned instead of being swallowed
PipelinePollStep_PropagatesEarlierErrors(pl, lst, rdy, outs) ==
    LET p == poll_pipeline(pl, rdy)
        failed == {k \in 1..Len(pl) : pl[k] \in rdy /\ ~outs[pl[k]].ok}
    IN  IF failed # {}
        THEN [pipeline |-> p, last |-> lst,
              ret |-> outs[pl[CHOOSE k \in failed : \A j \in failed : k <= j]]]
        ELSE IF lst.tag = "Pending" /\ lst.id \in rdy
        THEN IF p = <<>>
             THEN [pipeline |-> p, last |-> [tag |-> "Gone"], ret |-> outs[lst.id]]
             ELSE [pipeline |-> p, last |-> [tag |-> "Exited", ret |-> outs[lst.id]],
                   ret |-> None]
        ELSE IF lst.tag = "Exited" /\ p = <<>>
        THEN [pipeline |-> p, last |-> [tag |-> "Exited", ret |-> None],
              ret |-> lst.ret]
        ELSE [pipeline |-> p, last |-> lst, ret |-> None]

\* mutant: the last stage's result is returned as soon as it is there
PipelinePollStep_ReturnsAtOnce(pl, lst, rdy, outs) ==
    LET p == poll_pipeline(pl, rdy) IN
    CASE lst.tag = "Pending" ->
           IF lst.id \in rdy
           THEN [pipeline |-> p, last |-> [tag |-> "Gone"], ret |-> outs[lst.id]]
           ELSE [pipeline |-> p, last |-> lst, ret |-> None]
      [] lst.tag = "Exited" ->
           IF p = <<>>
           THEN [pipeline |-> p, last |-> [tag |-> "Exited", ret |-> None],
                 ret |-> lst.ret]
           ELSE [pipeline |-> p, last |-> lst, ret |-> None]

PipelinePollStep(pl, lst, rdy, outs) ==
    LET p == poll_pipeline(pl, rdy) IN
    CASE lst.tag = "Pending" ->
           IF lst.id \in rdy
           THEN IF p = <<>>
                \* Ok(Async::Ready(try!(last_status)))
                THEN [pipeline |-> p, last |-> [tag |-> "Gone"],
                      ret |-> outs[lst.id]]
                \* self.last = LastState::Exited(Some(last_status))
                ELSE [pipeline |-> p,
                      last |-> [tag |-> "Exited", ret |-> outs[lst.id]],
                      ret |-> None]
           ELSE [pipeline |-> p, last |-> lst, ret |-> None]
      [] lst.tag = "Exited" ->
           IF p = <<>>
           \* ret.take().expect("polled twice after completion")
           THEN [pipeline |-> p, last |-> [tag |-> "Exited", ret |-> None],
                 ret |-> lst.ret]
           ELSE [pipeline |-> p, last |-> lst, ret |-> None]

\* Pipeline::poll, driven by the task that owns the spawned listable command
PipelinePoll ==
    /\ pipeline_state = "Done"
    /\ result = None
    /\ last.tag \in {"Pending", "Exited"}
    /\ LET s == PipelinePollStep(pipeline, last, ready, cmds) IN
       /\ pipeline' = s.pipeline
       /\ last' = s.last
       /\ result' = s.ret
       /\ listableResult' = InvertStatusPoll(invert_last_status, s.ret)
    /\ UNCHANGED <<listCancels, cmds, invert_last_status, effKind, pipeline_state, envs,
                   envOf, ready>>
    /\ UNCHANGED notPipeVars

\* The poll of the Either::B future of a single command: the command's own
\* future, already resolved.
SinglePoll ==
    /\ pipeline_state = "Done"
    /\ result = None
    /\ last.tag = "EitherB"
    /\ result' = cmds[last.id]
    /\ listableResult' = InvertStatusPoll(invert_last_status, cmds[last.id])
    /\ last' = [tag |-> "Gone"]
    /\ UNCHANGED <<listCancels, cmds, invert_last_status, effKind, pipeline_state, pipeline,
                   envs, envOf, ready>>
    /\ UNCHANGED notPipeVars

\* ListableCommandEnvFuture::cancel: nothing in InitSingle and InitMany, passed
\* on to the spawned command in Single; pipeline_state is left as it is.
ListableCancel ==
    /\ pipeline_state \in {"InitMany", "Single"}
    /\ listCancels[1] < MaxCancels
    /\ listCancels' = <<listCancels[1] + 1,
                        IF pipeline_state = "Single"
                        THEN listCancels[2] + 1 ELSE listCancels[2]>>
    /\ UNCHANGED <<listableResult, cmds, invert_last_status, effKind, pipeline_state, pipeline,
                   last, envs, envOf, ready, result>>
    /\ UNCHANGED notPipeVars

NextPipeline ==
    \/ ListableInitMany
    \/ ListableCancel
    \/ \E i \in 1..MaxStages : StageRun(i)
    \/ ListableSingle
    \/ PipelinePoll
    \/ SinglePoll

SpecPipeline == InitPipeline /\ [][NextPipeline]_vars

(***************************************************************************)
(* C1: a pipeline of two or more stages resolves to exactly what its last  *)
(* stage resolved to (exit status or error); what the earlier stages       *)
(* resolved to never becomes the result, whatever order they finish in.    *)
(***************************************************************************)
C1_PipelineResultIsLastStage ==
    (NumCmds >= 2 /\ result # None) => result = cmds[NumCmds]

\* The last stage finished first and its status was stored, an earlier stage
\* failed later, and the pipeline resolved to the last stage's status.
C1_Witness ==
    /\ NumCmds >= 2
    /\ result = Ok(Code(42))
    /\ last = [tag |-> "Exited", ret |-> None]
    /\ cmds[1] = Err("fatal")

(***************************************************************************)
(* C33: a pipeline resolves only when every stage has completed. When the  *)
(* last stage finishes while an earlier stage is pending, its result is    *)
(* stored and the poll returns nothing; from then on the last stage is not *)
(* polled (the stored result stays as it is), and the stored result is     *)
(* returned by the first poll that finds no earlier stage pending.         *)
(***************************************************************************)
C33_ResolvesOnceEveryStageCompleted ==
    [][(/\ pipeline_state = "Done"
        /\ result = None
        /\ last.tag \in {"Pending", "Exited"}
        /\ UNCHANGED <<ready, listCancels>>) =>
          LET pending == {k \in 1..Len(pipeline) : pipeline[k] \notin ready} IN
          /\ result' # None =>
                /\ pending = {}
                /\ \A i \in 1..NumCmds : i \in ready
          /\ (last.tag = "Pending" /\ last.id \in ready /\ pending # {}) =>
                /\ last' = [tag |-> "Exited", ret |-> cmds[last.id]]
                /\ result' = None
          /\ last.tag = "Exited" =>
                /\ last'.tag = "Exited"
                /\ pending # {} => (last' = last /\ result' = None)
                /\ pending = {} => result' = last.ret]_vars

\* The last stage failed while an earlier one was pending; its error was
\* stored and returned once the earlier stages were done.
C33_Witness ==
    /\ NumCmds >= 2
    /\ last = [tag |-> "Exited", ret |-> None]
    /\ result # None
    /\ ~result.ok
    /\ result = cmds[NumCmds]

\* C13 (as stated): a pipeline of no commands resolves to EXIT_SUCCESS for
\* either value of invert_last_status.
C13_EmptyPipelineIsSuccess ==
    (NumCmds = 0 /\ listableResult # None) => listableResult = Ok(EXIT_SUCCESS)

\* C13 (amended): a pipeline of no commands is treated as a successful
\* command: it resolves to EXIT_SUCCESS without invert_last_status and to
\* EXIT_ERROR with it.
C13_EmptyPipelineIsSuccessfulCommand ==
    (NumCmds = 0 /\ listableResult # None) =>
        listableResult = Ok(IF invert_last_status THEN EXIT_ERROR
                            ELSE EXIT_SUCCESS)

\* an inverted pipeline of no commands has resolved
C13_Witness ==
    /\ pipeline_state = "Done"
    /\ NumCmds = 0
    /\ invert_last_status
    /\ listableResult = Ok(EXIT_ERROR)

\* C14: with invert_last_status a pipeline whose last stage exits with code
\* 0 resolves to Code(1) and one whose last stage exits unsuccessfully to
\* Code(0); without it the last stage's status is returned unchanged.
C14_InvertLastStatus ==
    (NumCmds >= 1 /\ listableResult # None /\ cmds[NumCmds].ok) =>
        listableResult =
            Ok(IF ~invert_last_status THEN cmds[NumCmds].v
               ELSE IF cmds[NumCmds].v = Code(0) THEN Code(1) ELSE Code(0))

\* `! false | true` has resolved to Code(1)
C14_Witness ==
    /\ NumCmds = 2
    /\ invert_last_status
    /\ cmds = <<Ok(EXIT_ERROR), Ok(EXIT_SUCCESS)>>
    /\ listableResult = Ok(Code(1))

(***************************************************************************)
(* C2 (as stated): for every n >= 1, each command of a Pipe of n commands  *)
(* runs in its own sub-environment, so the caller's environment never      *)
(* changes and no stage sees another stage's change.                       *)
(***************************************************************************)
OwnEnvOnly(n) ==
    /\ envs[0] = CallerEnv
    /\ \A i \in DOMAIN envOf :
          /\ envOf[i] = i
          /\ i \in DOMAIN envs
          /\ envs[i] = IF i \in ready
                       THEN RunEffect(StageEnv(CallerEnv, i, n), i, effKind)
                       ELSE StageEnv(CallerEnv, i, n)

C2_EveryPipeCommandInOwnSubEnv ==
    (NumCmds >= 1 /\ pipeline_state # "InitMany") => OwnEnvOnly(NumCmds)

(***************************************************************************)
(* C2 (amended): in a Pipe of n >= 2 commands each command runs in its own *)
(* sub-environment: the caller's environment never changes and each        *)
(* stage's environment holds its own change only.  A Pipe of exactly one   *)
(* command is spawned in the caller's environment, where its change shows. *)
(***************************************************************************)
C2_PipeOfTwoOrMoreInOwnSubEnvs ==
    /\ (NumCmds >= 2 /\ pipeline_state # "InitMany") => OwnEnvOnly(NumCmds)
    /\ (NumCmds = 1 /\ 1 \in ready) =>
           (envOf[1] = 0 /\ envs[0] = RunEffect(CallerEnv, 1, effKind))

\* Every stage of a pipeline of two or more has run and changed its
\* environment, the pipeline has resolved, and the caller's is untouched.
C2_Witness ==
    /\ NumCmds >= 2
    /\ ready = 1..NumCmds
    /\ result # None
    /\ envs[0] = CallerEnv
    /\ \A i \in 1..NumCmds : envs[i] # StageEnv(CallerEnv, i, NumCmds)

(***************************************************************************)
(* Cancelling an evaluation: a parameter substitution, a loop or a         *)
(* listable command.                                                       *)
(***************************************************************************)
InitCancel == InitParamSubst \/ InitLoop \/ InitPipeline

NextCancel ==
    \/ \E r \in {None, Ok("fields"), Err("fatal")} : InnerPoll(r)
    \/ InnerCancel
    \/ LoopPollEnter
    \/ LoopInit
    \/ \E o \in CmdOutcomes, sets \in BOOLEAN : SeqRunCmd(o, sets)
    \/ LoopNotReady
    \/ LoopGuard
    \/ LoopGuardLast
    \/ LoopBody
    \/ LoopBodyLast
    \/ LoopCancel
    \/ ListableInitMany
    \/ ListableCancel
    \/ \E i \in 1..MaxStages : StageRun(i)
    \/ ListableSingle
    \/ PipelinePoll
    \/ SinglePoll

SpecCancel == InitCancel /\ [][NextCancel]_vars

\* C5 (as stated): cancel is idempotent for every evaluation: a second cancel
\* of the same evaluation returns normally, without a panic.
C5_SecondCancelReturnsNormally ==
    /\ psCancels[1] >= 2 => psPanic = None
    /\ loopCancels[1] >= 2 => loopResult = None
    /\ listCancels[1] >= 2 => result = None

\* C5 (amended): the first cancel returns normally.  A cancelled parameter
\* substitution is in state Gone (where a poll panics with POLLED_TWICE), and
\* it panics with CANCELLED_TWICE exactly when it is cancelled again.  A loop and a listable command pass every
\* cancel on to the evaluation they are running (a loop in Guard and Body, a
\* listable command in Single) and to nothing otherwise.
C5_SecondCancelPanicsOnceGone ==
    /\ psCancels[1] >= 1 => inner = "Gone"
    /\ psCancels[1] = 1 => psPanic \in {None, Panic(POLLED_TWICE)}
    /\ psCancels[1] >= 2 <=> psPanic = Panic(CANCELLED_TWICE)
    /\ loopCancels[1] >= 1 =>
          loopCancels[2] = IF loop_cmd.state.tag \in {"Guard", "Body"}
                           THEN loopCancels[1] ELSE 0
    /\ listCancels[1] >= 1 =>
          listCancels[2] = IF pipeline_state = "Single"
                           THEN listCancels[1] ELSE 0

\* a parameter substitution whose first cancel was passed on to its inner
\* future has been cancelled a second time
C5_Witness ==
    /\ psCancels = <<2, 1>>
    /\ inner = "Gone"
    /\ psPanic = Panic(CANCELLED_TWICE)

====
